---- MODULE Spec2Model ----
(***************************************************************************)
(* Model of the xfm_tck structural-connectome pipeline:                    *)
(*   - the process invoker (utils/command.py, Command.run),                 *)
(*   - the scoped workspace (utils/workdir.py, utils/tempdir.py),          *)
(*   - the artifact naming (utils/fileio.py, ReconMRtrix.Mif),             *)
(*   - the registration stage, the diffusion stage and the orchestrator    *)
(*     (xfm_tck.py: compute_xfm, create_structural_connectome, main).      *)
(* File names and paths are modelled as strings, computed with the same    *)
(* slicing and splitting operations the Python code applies to them.       *)
(***************************************************************************)
EXTENDS Integers, Sequences, FiniteSets, TLC

(***************************************************************************)
(* Bounds of the model.                                                    *)
(***************************************************************************)
\* random.randint(0, _n) draws from 0.._n; the model draws from 0..MaxSuffix
MaxSuffix == 1
\* non-zero exit statuses an external process may return: 1..MaxExit
MaxExit == 1

(***************************************************************************)
(* Python string and os.path primitives.                                   *)
(***************************************************************************)
Min(a, b) == IF a < b THEN a ELSE b
Max(a, b) == IF a > b THEN a ELSE b

\* s[:-n] for n >= 1
DropLast(s, n) == SubSeq(s, 1, Max(0, Len(s) - n))
\* s[-n:] for n >= 1
TakeLast(s, n) == SubSeq(s, Max(1, Len(s) - n + 1), Len(s))
\* s.endswith(t)
EndsWith(s, t) == Len(t) <= Len(s) /\ SubSeq(s, Len(s) - Len(t) + 1, Len(s)) = t
\* s.startswith(t)
StartsWith(s, t) == Len(t) <= Len(s) /\ SubSeq(s, 1, Len(t)) = t
\* t in s
Contains(s, t) == \E i \in 1..(Len(s) - Len(t) + 1) : SubSeq(s, i, i + Len(t) - 1) = t
\* position of the last occurrence of the one-character string c in s, 0 if none
LastIndexOf(s, c) ==
    LET hits == {i \in 1..Len(s) : SubSeq(s, i, i) = c}
    IN  IF hits = {} THEN 0 ELSE CHOOSE i \in hits : \A j \in hits : j <= i

\* os.path.split(p) for a normalised path: <<head, tail>>
PathSplit(p) ==
    LET i == LastIndexOf(p, "/")
    IN  IF i = 0 THEN <<"", p>>
        ELSE IF i = 1 THEN <<"/", SubSeq(p, 2, Len(p))>>
        ELSE <<SubSeq(p, 1, i - 1), SubSeq(p, i + 1, Len(p))>>
\* os.path.dirname / os.path.basename
DirName(p) == PathSplit(p)[1]
BaseName(p) == PathSplit(p)[2]
\* os.path.join(a, b)
PathJoin(a, b) ==
    IF StartsWith(b, "/") THEN b
    ELSE IF a = "" \/ EndsWith(a, "/") THEN a \o b
    ELSE a \o "/" \o b
\* os.path.splitext(p): <<root, ext>>; a leading dot of the basename is no extension
SplitExt(p) ==
    LET sep == LastIndexOf(p, "/")
        dot == LastIndexOf(p, ".")
        lead == {i \in (sep + 1)..dot : \A j \in (sep + 1)..i : SubSeq(p, j, j) = "."}
    IN  IF dot > sep /\ dot \notin lead
        THEN <<SubSeq(p, 1, dot - 1), SubSeq(p, dot, Len(p))>>
        ELSE <<p, "">>
\* os.path.abspath(p) with the current working directory cwd, for normalised paths
AbsPath(cwd, p) == IF StartsWith(p, "/") THEN p ELSE PathJoin(cwd, p)

(***************************************************************************)
(* Artifacts: a file object is a record [file, ext].                       *)
(***************************************************************************)
\* Python's None
None == "<None>"

\* no file object (None, or "" where the code uses that)
NoFile == [file |-> "", ext |-> ""]

\* variant: the extension is inferred by os.path.splitext alone
File_splitext(src, ext) ==
    [file |-> src, ext |-> IF ext # "" THEN ext ELSE SplitExt(src)[2]]

\* File.__init__: the extension is taken as given, else inferred from the name
File(src, ext) ==
    [file |-> src,
     ext  |-> IF ext # "" THEN ext
              ELSE IF EndsWith(src, ".gz") THEN TakeLast(src, 7)
              ELSE SplitExt(src)[2]]

\* NiiFile.__init__
NiiFile(src) ==
    IF EndsWith(src, ".nii.gz") THEN [file |-> src, ext |-> ".nii.gz"]
    ELSE IF EndsWith(src, ".nii") THEN [file |-> src, ext |-> ".nii"]
    ELSE [file |-> src \o ".nii.gz", ext |-> ".nii.gz"]

\* File.rm_ext
rm_ext(f, ext) ==
    IF ext # "" THEN DropLast(f.file, Len(ext))
    ELSE IF f.ext # "" THEN DropLast(f.file, Len(f.ext))
    ELSE DropLast(f.file, 4)

\* File.file_parts: [path, filename, ext]; every path of the model is absolute
file_parts(f, ext) ==
    LET sp == PathSplit(f.file)
    IN  IF ext # ""
        THEN [path |-> sp[1], filename |-> SplitExt(DropLast(sp[2], Len(ext)))[1], ext |-> ext]
        ELSE IF f.ext # ""
        THEN [path |-> sp[1], filename |-> SplitExt(DropLast(sp[2], Len(f.ext)))[1], ext |-> f.ext]
        ELSE [path |-> sp[1], filename |-> SplitExt(sp[2])[1], ext |-> SplitExt(sp[2])[2]]

\* ReconMRtrix.Mif.__init__
Mif(file, gzip) ==
    LET n == IF Contains(file, ".gz") THEN 7 ELSE 4
    IN  File(DropLast(file, n) \o (IF gzip THEN ".mif.gz" ELSE ".mif"), TakeLast(file, n))

\* TmpDir.__init__ (with WorkDir.__init__): [src, parent_dir], no filesystem access
TmpDir(src, use_cwd, r, wd) ==
    LET s1 == PathJoin(src, "tmp_dir_" \o ToString(r))
        s2 == IF use_cwd THEN PathJoin(wd, s1) ELSE s1
        s3 == IF use_cwd THEN PathJoin(wd, s2) ELSE s2
    IN  [src |-> s3, parent_dir |-> DirName(s3)]

\* variant: the given file name is not used, the file gets a generated name
TmpFile_unnamed(tmp_file, tmp_dir) == File(PathJoin(tmp_dir, "tmp_file_0"), "")
\* TmpDir.TmpFile.__init__ with a given file name and no extension argument
TmpFile(tmp_file, tmp_dir) == File(PathJoin(tmp_dir, tmp_file), "")

(***************************************************************************)
(* The filesystem: dirs is the set of existing directories, files maps     *)
(* every existing file to its content, a record [by, of] naming the        *)
(* command that wrote it and what it was computed from.                    *)
(***************************************************************************)
\* q is p or lies below p
Under(q, p) == q = p \/ StartsWith(q, p \o "/")

RECURSIVE SelfAndAncestors(_)
SelfAndAncestors(p) ==
    IF p = "" \/ p = "/" THEN {} ELSE {p} \cup SelfAndAncestors(DirName(p))

\* os.makedirs(p)
MakeDirs(d, p) == d \cup SelfAndAncestors(p)
\* shutil.rmtree(p, ignore_errors=True)
RmTreeDirs(d, p) == {q \in d : ~Under(q, p)}
RmTreeFiles(f, p) == [q \in {q \in DOMAIN f : ~Under(q, p)} |-> f[q]]
\* the files f after the files of w have been written
Write(f, w) == [q \in DOMAIN f \cup DOMAIN w |-> IF q \in DOMAIN w THEN w[q] ELSE f[q]]
\* variant: the file is left in place
Remove_nothing(f, p) == f
\* os.remove(p) of an existing file
Remove(f, p) == [q \in DOMAIN f \ {p} |-> f[q]]
Content(by, of) == [by |-> by, of |-> of]

(***************************************************************************)
(* Command.run.  cmd is the argument list after shlex.split, found tells   *)
(* whether the executable is resolvable, rc is the exit status of the      *)
(* process when it is spawned.  The result is the outcome of the call:     *)
(* log is the log argument: NoLog, a file name (str) or a LogFile.          *)
(*   records  the records handed to the log sink, in order                 *)
(*   spawned  whether subprocess.Popen started the process                 *)
(*   exc      the exception that leaves run, NoExc if it returns           *)
(*   ret      the returned tuple <<returncode, stdout, stderr>>, <<>> if   *)
(*            run does not return                                          *)
(*   wrote    the standard output/error files written                      *)
(***************************************************************************)
NoLog == [kind |-> "none"]
LogStr(name) == [kind |-> "str", log_file |-> name]
LogFile(name) == [kind |-> "LogFile", log_file |-> name]
NoExc == [type |-> "none"]
Exc(type) == [type |-> type]
\* variant: the error names the executable without its arguments
RuntimeError_exe(cmd, rc) == [type |-> "RuntimeError", command |-> <<cmd[1]>>, rc |-> rc]
\* RuntimeError(f"Failed: {self.command} with return code {p.returncode}")
RuntimeError(cmd, rc) == [type |-> "RuntimeError", command |-> cmd, rc |-> rc]

\* variant: the record names the executable without its arguments
RunningRecord_bare(cmd, debug) ==
    [level |-> IF debug THEN "debug" ELSE "info", text |-> "Running", command |-> <<cmd[1]>>]
RunningRecord(cmd, debug) ==
    [level |-> IF debug THEN "debug" ELSE "info", text |-> "Running", command |-> cmd]
\* variant: the failure is recorded at info severity
FailedRecord_info(cmd, rc) ==
    [level |-> "info", text |-> "Failed", command |-> cmd, rc |-> rc]
FailedRecord(cmd, rc) ==
    [level |-> "error", text |-> "Failed", command |-> cmd, rc |-> rc]
DryRunRecord == [level |-> "info", text |-> "Performing command as a dry run."]

Run(cmd, found, log, debug, dryrun, stdout, raise_exc, rc, wd) ==
    LET sink    == log.kind # "none"
        started == IF sink THEN <<RunningRecord(cmd, debug)>> ELSE <<>>
        out     == IF stdout # None THEN AbsPath(wd, stdout) ELSE None
        err     == IF stdout # None THEN AbsPath(wd, SplitExt(stdout)[1] \o ".err") ELSE None
        wrote   == IF stdout # None THEN {out, err} ELSE {}
    IN  IF sink /\ dryrun
        THEN [records |-> started \o <<DryRunRecord>>, spawned |-> FALSE, exc |-> NoExc,
              ret |-> <<0, None, None>>, wrote |-> {}]
        ELSE IF ~found
        THEN [records |-> started, spawned |-> FALSE, exc |-> Exc("FileNotFoundError"),
              ret |-> <<>>, wrote |-> {}]
        ELSE IF rc # 0
        THEN [records |-> started \o (IF sink THEN <<FailedRecord(cmd, rc)>> ELSE <<>>),
              spawned |-> TRUE,
              exc     |-> IF raise_exc THEN RuntimeError(cmd, rc) ELSE NoExc,
              ret     |-> IF raise_exc THEN <<>> ELSE <<rc, out, err>>,
              wrote   |-> wrote]
        ELSE [records |-> started, spawned |-> TRUE, exc |-> NoExc,
              ret |-> <<rc, out, err>>, wrote |-> wrote]

(***************************************************************************)
(* State.                                                                  *)
(***************************************************************************)
VARIABLES
    cfg,      \* the command line of main: the pipeline configuration
    stack,    \* call stack of the pipeline: frames [fn, k, a], innermost last
    exc,      \* the exception that ended the run, NoExc otherwise
    cwd,      \* current working directory of the process
    ret,      \* the value returned by the function that returned last
    dirs,     \* existing directories
    files,    \* existing files and their contents
    log,      \* records handed to the log sink
    trace,    \* steps taken so far: spawned processes and workspace operations
    last,     \* the most recent spawned command with its arguments
    call,     \* arguments of a single Command.run call
    result,   \* outcome of that call
    work,     \* the workspaces of the runs that share a filesystem
    art,      \* a file object with the parts and the sibling path derived from it
    environ,  \* os.environ of the process: pairs <<name, value>>
    handlers  \* the file handlers of the module's logger: how many write to each file

vars == <<cfg, stack, exc, cwd, ret, dirs, files, log, trace, last, call, result, work, art, environ, handlers>>
pipeline_vars == <<cfg, stack, exc, cwd, ret, dirs, trace, last>>

(***************************************************************************)
(* A single call of Command.run with arbitrary arguments.                  *)
(***************************************************************************)
Commands == {<<"echo", "hi">>, <<"bet", "/in/a.nii", "/in/a_brain.nii">>}
LogArgs == {NoLog, LogStr("/in/file.log"), LogFile("/in/file.log")}
StdoutArgs == {None, "/in/out.txt"}
\* the log files, and the most file handlers the logger is given
LogNames == {"/in/file.log", "/in/other.log"}
MaxHandlers == 2
NoHandlers == [n \in LogNames |-> 0]
Attached(h) == h["/in/file.log"] + h["/in/other.log"]
\* variant: a file that has a handler is not given another one
LogFile_init_once(h, name) == [h EXCEPT ![name] = IF @ = 0 THEN 1 ELSE @]
\* LogFile.__init__: logging.getLogger(__name__) is one logger for all LogFile
\* objects, and every construction adds a FileHandler for its file to it
LogFile_init(h, name) == [h EXCEPT ![name] = @ + 1]
\* the LogFile object a caller passes as log has been constructed
Constructed_by_caller(sink, h) ==
    IF sink.kind = "LogFile" /\ h[sink.log_file] = 0 THEN LogFile_init(h, sink.log_file) ELSE h
\* rec repeated n times
RECURSIVE Copies(_, _)
Copies(rec, n) == IF n = 0 THEN <<>> ELSE <<rec>> \o Copies(rec, n - 1)
\* what the logger, at its level INFO, writes to the file name for the records
\* handed to it: every handler of the file writes every record that passes
RECURSIVE Lines(_, _, _)
Lines(h, records, name) ==
    IF records = <<>> THEN <<>>
    ELSE (IF records[1].level = "debug" THEN <<>> ELSE Copies(records[1], h[name]))
             \o Lines(h, Tail(records), name)

\* the env attribute of the Command: no variables (None), or one variable
EnvArgs == {{}, {<<"FSLOUTPUTTYPE", "NIFTI_GZ">>}}
\* os.environ when the program starts
HostEnviron == {<<"PATH", "/usr/bin">>}
\* d.update(env) of a mapping d
DictUpdate(d, env) == env \cup {v \in d : \A e \in env : e[1] # v[1]}
\* merged_env = os.environ; merged_env.update(self.env): merged_env is os.environ
\* itself, host is os.environ after the update and child is what Popen is given
merged_env(host, env) == [host |-> DictUpdate(host, env), child |-> DictUpdate(host, env)]
CallArgs ==
    [command : Commands, found : {TRUE}, log : LogArgs, debug : BOOLEAN, dryrun : BOOLEAN,
     stdout : StdoutArgs, raise_exc : BOOLEAN, env : EnvArgs]
NoCall == [command |-> <<>>]
NoResult == [done |-> FALSE]
NoCmd == [site |-> ""]

\* no file object is under study
NoArt == [obj |-> NoFile]

InitRun ==
    /\ call \in CallArgs
    /\ result = NoResult
    /\ log = <<>>
    /\ files = <<>>
    /\ cfg = [none |-> TRUE]
    /\ stack = <<>>
    /\ exc = NoExc
    /\ cwd = "/"
    /\ ret = <<>>
    /\ dirs = {"/in"}
    /\ trace = <<>>
    /\ last = NoCmd
    /\ work = <<>>
    /\ art = NoArt
    /\ environ = HostEnviron
    /\ handlers = Constructed_by_caller(call.log, NoHandlers)

\* Command.run: the process exits with status rc
Command_run ==
    /\ result = NoResult
    /\ \E rc \in 0..MaxExit :
         LET o == Run(call.command, call.found, call.log, call.debug, call.dryrun,
                      call.stdout, call.raise_exc, rc, cwd)
             m == merged_env(environ, call.env)
             \* the dry run returns before the environment is set up
             dry == call.log.kind # "none" /\ call.dryrun
             \* `if type(log) is str: log = LogFile(log_file=log)`
             h == IF call.log.kind = "str" THEN LogFile_init(handlers, call.log.log_file)
                  ELSE handlers
         IN  /\ result' = [done |-> TRUE, rc |-> rc, o |-> o,
                           env |-> IF o.spawned THEN m.child ELSE {},
                           lines |-> [n \in LogNames |-> Lines(h, o.records, n)]]
             /\ handlers' = h
             /\ environ' = IF dry THEN environ ELSE m.host
             /\ log' = log \o o.records
             /\ files' = Write(files, [q \in o.wrote |-> Content("Command.run", call.command)])
    /\ UNCHANGED <<call, pipeline_vars, work, art>>

\* variant: a missing executable is reported by the returned value
Command_check_dependency_reported(command, found) ==
    [ret |-> <<found>>, exc |-> NoExc, spawned |-> FALSE, records |-> <<>>, wrote |-> {}]

\* Command.check_dependency of the command whose first token shutil.which
\* resolves (found) or not: the value returned, <<>> when the call raises, the
\* exception raised, and what the call spawns, logs and writes
Command_check_dependency(command, found) ==
    IF ~found
    THEN [ret |-> <<>>, exc |-> Exc("DependencyError"), spawned |-> FALSE,
          records |-> <<>>, wrote |-> {}]
    ELSE [ret |-> <<TRUE>>, exc |-> NoExc, spawned |-> FALSE, records |-> <<>>, wrote |-> {}]

\* the caller checks the dependency of the command before it decides to run it
Check_dependency ==
    /\ result = NoResult
    /\ last = NoCmd
    /\ \E found \in BOOLEAN :
         LET o == Command_check_dependency(call.command, found)
         IN  /\ ret' = o.ret
             /\ exc' = o.exc
             /\ last' = [site |-> "Command.check_dependency", cmd |-> call.command,
                         found |-> found, spawned |-> o.spawned]
             /\ log' = log \o o.records
             /\ files' = Write(files, [q \in o.wrote |->
                                          Content("Command.check_dependency", call.command)])
    /\ UNCHANGED <<cfg, stack, cwd, dirs, trace, call, result, work, art, environ, handlers>>

\* the caller makes another call
\* A LogFile passed as log is one the caller has constructed before (a handler
\* of its file is attached) or constructs for this call (fresh); a call that
\* makes the logger exceed MaxHandlers handlers is not made.
NewCall ==
    /\ result # NoResult
    /\ \E c \in CallArgs, fresh \in BOOLEAN :
          /\ c.log.kind = "str" => Attached(handlers) < MaxHandlers
          /\ c.log.kind = "LogFile" =>
                IF fresh THEN Attached(handlers) < MaxHandlers
                ELSE handlers[c.log.log_file] > 0
          /\ c.log.kind # "LogFile" => ~fresh
          /\ call' = c
          /\ handlers' = IF fresh THEN LogFile_init(handlers, c.log.log_file) ELSE handlers
    /\ result' = NoResult
    /\ log' = <<>>
    /\ files' = <<>>
    /\ ret' = <<>>
    /\ exc' = NoExc
    /\ last' = NoCmd
    /\ UNCHANGED <<cfg, stack, cwd, dirs, trace, work, art, environ>>

\* another part of the program constructs a LogFile for a log file of its own
NewLogFile ==
    /\ result # NoResult
    /\ Attached(handlers) < MaxHandlers
    /\ handlers' = LogFile_init(handlers, "/in/other.log")
    /\ UNCHANGED <<cfg, stack, exc, cwd, ret, dirs, files, log, trace, last, call, result, work,
                   art, environ>>

NextRun == Command_run \/ Check_dependency \/ NewCall \/ NewLogFile
SpecRun == InitRun /\ [][NextRun]_vars

(***************************************************************************)
(* Scoped workspace operations (WorkDir.mkdir, WorkDir.rmdir).             *)
(***************************************************************************)
\* os.path.exists(p)
Exists(p) == p \in dirs \/ p \in DOMAIN files

\* WorkDir.mkdir: the directories after the call
mkdir(w) == IF w.src \notin dirs THEN MakeDirs(dirs, w.src) ELSE dirs

\* variant: the workspace is removed only together with its parent
rmdir_target_no_elif(w, rm_parent) ==
    IF rm_parent /\ Exists(w.parent_dir) THEN w.parent_dir ELSE None
\* variant: the parent directory is removed whatever rm_parent is
rmdir_target_parent(w, rm_parent) ==
    IF Exists(w.parent_dir) THEN w.parent_dir
    ELSE IF Exists(w.src) THEN w.src
    ELSE None
\* WorkDir.rmdir: the path that is removed recursively, None if nothing is removed
rmdir_target(w, rm_parent) ==
    IF rm_parent /\ Exists(w.parent_dir) THEN w.parent_dir
    ELSE IF Exists(w.src) THEN w.src
    ELSE None

(***************************************************************************)
(* The pipeline: call stack and steps.                                     *)
(***************************************************************************)
Top == stack[Len(stack)]
In(fn) == stack # <<>> /\ Top.fn = fn
At(fn, k) == In(fn) /\ Top.k = k
Frame(fn, a) == [fn |-> fn, k |-> 1, a |-> a, l |-> <<>>]
\* the locals l extended (or rebound) with the bindings b
Bind(l, b) == b @@ l
Pop == SubSeq(stack, 1, Len(stack) - 1)
\* the running function moves to step k with new bindings b
Goto(k, b) == [stack EXCEPT ![Len(stack)].k = k, ![Len(stack)].l = Bind(@, b)]
\* the running function binds b, calls fn(a) and resumes at step k
CallAt(k, b, fn, a) == Append(Goto(k, b), Frame(fn, a))

Site(ctx, fn, tag) == ctx \o ":" \o fn \o ":" \o tag
Prov(p) == IF p \in DOMAIN files THEN files[p].of ELSE None
Event(site, op, rc) == [site |-> site, op |-> op, rc |-> rc, path |-> None]
\* a workspace operation on the directory path
EventAt(site, op, path) == [site |-> site, op |-> op, rc |-> 0, path |-> path]

\* An uncaught exception e leaves the running function: the run ends.
Raise(e) ==
    /\ stack' = <<>>
    /\ exc' = e
    /\ UNCHANGED <<cfg, cwd, ret, dirs, files, log, trace, last, call, result, work, art, environ, handlers>>

\* variant: a command that fails is issued again
Spawn_retried(site, cmd, ins, outs, nstack, nret) ==
    \E rc \in 0..MaxExit :
        /\ rc = 0 => ins \subseteq DOMAIN files
        /\ LET o == Run(cmd, cmd[1] \in cfg.on_path, LogFile(cfg.log), FALSE, FALSE,
                        None, TRUE, rc, cwd)
           IN  /\ log' = log \o o.records
               /\ trace' = IF o.spawned THEN Append(trace, Event(site, "spawn", rc)) ELSE trace
               /\ last' = [site |-> site, cmd |-> cmd, ins |-> ins, outs |-> DOMAIN outs,
                           rc |-> rc,
                           prod |-> [q \in ins |-> IF q \in DOMAIN files
                                                   THEN files[q].by ELSE None]]
               /\ IF o.exc # NoExc
                  THEN /\ stack' = IF o.spawned /\ last.site # site THEN stack ELSE <<>>
                       /\ exc' = IF o.spawned /\ last.site # site THEN exc ELSE o.exc
                       /\ files' = files
                       /\ ret' = ret
                  ELSE /\ stack' = nstack
                       /\ exc' = exc
                       /\ files' = Write(files, outs)
                       /\ ret' = nret
        /\ UNCHANGED <<cfg, cwd, dirs, call, result, work, art, environ, handlers>>

\* variant: the workspace is a with-block, left by the exception through __exit__
Spawn_scoped(site, cmd, ins, outs, nstack, nret) ==
    \E rc \in 0..MaxExit :
        /\ rc = 0 => ins \subseteq DOMAIN files
        /\ LET o == Run(cmd, cmd[1] \in cfg.on_path, LogFile(cfg.log), FALSE, FALSE,
                        None, TRUE, rc, cwd)
           IN  /\ log' = log \o o.records
               /\ trace' = IF o.spawned THEN Append(trace, Event(site, "spawn", rc)) ELSE trace
               /\ last' = [site |-> site, cmd |-> cmd, ins |-> ins, outs |-> DOMAIN outs,
                           rc |-> rc,
                           prod |-> [q \in ins |-> IF q \in DOMAIN files
                                                   THEN files[q].by ELSE None]]
               /\ IF o.exc # NoExc
                  THEN /\ stack' = <<>>
                       /\ exc' = o.exc
                       /\ files' = RmTreeFiles(files, PathJoin(cfg.out_dir, "work.tmp"))
                       /\ dirs' = RmTreeDirs(dirs, PathJoin(cfg.out_dir, "work.tmp"))
                       /\ ret' = ret
                  ELSE /\ stack' = nstack
                       /\ exc' = exc
                       /\ files' = Write(files, outs)
                       /\ ret' = nret
                       /\ dirs' = dirs
        /\ UNCHANGED <<cfg, cwd, call, result, work, art, environ, handlers>>

\* Command(...).run(self.log): the call spawns the process, waits for it and
\* raises on a non-zero status; on success the process has written outs, the
\* running function continues as nstack and holds nret.  A process exits 0
\* only when the input files it is given exist.
Spawn(site, cmd, ins, outs, nstack, nret) ==
    \E rc \in 0..MaxExit :
        /\ rc = 0 => ins \subseteq DOMAIN files
        /\ LET o == Run(cmd, cmd[1] \in cfg.on_path, LogFile(cfg.log), FALSE, FALSE,
                        None, TRUE, rc, cwd)
           IN  /\ log' = log \o o.records
               /\ trace' = IF o.spawned THEN Append(trace, Event(site, "spawn", rc)) ELSE trace
               /\ last' = [site |-> site, cmd |-> cmd, ins |-> ins, outs |-> DOMAIN outs,
                           rc |-> rc,
                           prod |-> [q \in ins |-> IF q \in DOMAIN files
                                                   THEN files[q].by ELSE None]]
               /\ IF o.exc # NoExc
                  THEN /\ stack' = <<>>
                       /\ exc' = o.exc
                       /\ files' = files
                       /\ ret' = ret
                  ELSE /\ stack' = nstack
                       /\ exc' = exc
                       /\ files' = Write(files, outs)
                       /\ ret' = nret
        /\ UNCHANGED <<cfg, cwd, dirs, call, result, work, art, environ, handlers>>

\* shutil.copy(src, dst) of one file: the exception it raises, NoExc if it copies
copy_exc(src, dst) ==
    IF src \notin DOMAIN files THEN Exc("FileNotFoundError")
    ELSE IF src = dst THEN Exc("SameFileError")
    ELSE IF DirName(dst) \notin dirs THEN Exc("FileNotFoundError")
    ELSE NoExc

\* copies of the pairs <<src, dst>> of cs, in order: the first exception, if any
RECURSIVE copies_exc(_)
copies_exc(cs) ==
    IF cs = <<>> THEN NoExc
    ELSE IF copy_exc(cs[1][1], cs[1][2]) # NoExc THEN copy_exc(cs[1][1], cs[1][2])
    ELSE copies_exc(Tail(cs))

\* the files after the copies of cs that precede the first failing one
RECURSIVE copies_files(_, _)
copies_files(f, cs) ==
    IF cs = <<>> \/ copy_exc(cs[1][1], cs[1][2]) # NoExc THEN f
    ELSE copies_files(Write(f, cs[1][2] :> files[cs[1][1]]), Tail(cs))

(***************************************************************************)
(* Workspaces of runs that share a filesystem.  Every run allocates a       *)
(* workspace with TmpDir, materializes it, stages an input into it and      *)
(* tears it down, in any order and interleaved with the other run; a run    *)
(* that has ended is followed by another run.                              *)
(***************************************************************************)
Runs == {"A", "B"}
\* the work_dir and use_cwd arguments of TmpDir: the directory main passes, the
\* default of create_structural_connectome, a directory of its own, and a
\* directory given by its absolute path together with use_cwd
WorkArgs ==
    {<<"/out/work.tmp", FALSE>>, <<"work.tmp", TRUE>>, <<"/out/scratch/job", FALSE>>,
     <<"/in/job", TRUE>>}
NoWork == [src |-> "", parent_dir |-> ""]
Idle == [op |-> "none", run |-> "", rm_parent |-> FALSE, existed |-> FALSE]
\* the operation a run has just called; existed tells whether its workspace
\* directory existed when it was called
Called(op, p, rm_parent) ==
    [op |-> op, run |-> p, rm_parent |-> rm_parent, existed |-> work[p].src \in dirs]

\* os.makedirs(p): the exception it raises, NoExc if it makes the directories
MakeDirsExc(p) ==
    IF Exists(p) \/ \E q \in SelfAndAncestors(p) : q \in DOMAIN files
    THEN Exc("FileExistsError") ELSE NoExc
\* variant: os.makedirs is called whether or not the directory exists
mkdir_exc_unchecked(w) == MakeDirsExc(w.src)
\* WorkDir.mkdir: the exception that leaves the call
mkdir_exc(w) == IF w.src \notin dirs THEN MakeDirsExc(w.src) ELSE NoExc
\* shutil.rmtree(p, ignore_errors): the exception that leaves the call
RmTreeExc(p, ignore_errors) ==
    IF ~ignore_errors /\ ~Exists(p) THEN Exc("FileNotFoundError") ELSE NoExc

\* the variables no workspace operation changes
work_frame == <<cfg, cwd, ret, log, trace, last, result, art, environ, handlers>>
\* the run p is inside the with-block of its workspace
InBlock(p) == \E i \in 1..Len(stack) : stack[i].fn = "with" /\ stack[i].a.run = p
\* the with-blocks without the one of p
Left(p) == SelectSeq(stack, LAMBDA f : f.a.run # p)

InitWork ==
    /\ work = [p \in Runs |-> NoWork]
    /\ art = NoArt
    /\ environ = HostEnviron
    /\ handlers = NoHandlers
    /\ call = Idle
    /\ exc = NoExc
    /\ cwd = "/out"
    /\ dirs = {"/in", "/out", "/out/scratch"}
    /\ files = [q \in {"/in/dwi.nii.gz", "/out/scratch/notes.txt"} |-> Content("input", q)]
    /\ cfg = [none |-> TRUE]
    /\ stack = <<>>
    /\ ret = <<>>
    /\ log = <<>>
    /\ trace = <<>>
    /\ last = NoCmd
    /\ result = NoResult

\* work_tmp = TmpDir(work_dir, use_cwd): no filesystem access
Allocate(p) ==
    /\ work[p] = NoWork
    /\ \E a \in WorkArgs, r \in 0..MaxSuffix :
          /\ work' = [work EXCEPT ![p] = TmpDir(a[1], a[2], r, cwd)]
          /\ call' = [src |-> a[1], use_cwd |-> a[2], r |-> r] @@ Called("TmpDir", p, FALSE)
    /\ exc' = NoExc
    /\ UNCHANGED <<dirs, files, stack, work_frame>>

\* work_tmp.mkdir()
Materialize(p) ==
    /\ work[p] # NoWork
    /\ call' = Called("mkdir", p, FALSE)
    /\ exc' = mkdir_exc(work[p])
    /\ dirs' = IF mkdir_exc(work[p]) = NoExc THEN mkdir(work[p]) ELSE dirs
    /\ UNCHANGED <<files, work, stack, work_frame>>

\* variant: the exit removes the parent directory with the workspace
TmpDir_exit_rm_parent == TRUE
\* TmpDir.__exit__ calls self.rmdir(): rm_parent is left at its default
TmpDir_exit == FALSE

\* variant: the exit suppresses the exception of the block
IOBaseObj_exit_suppress(e) == NoExc
\* IOBaseObj.__exit__ returns False: the exception e of the block, if any,
\* leaves the with statement
IOBaseObj_exit(e) == e

\* with work_tmp: -- WorkDir.__enter__ makes the directory unless it exists.
\* One run at a time is inside a with-block; the other run calls mkdir, copy
\* and rmdir on its own workspace meanwhile.
Enter(p) ==
    /\ work[p] # NoWork
    /\ stack = <<>>
    /\ call' = Called("enter", p, FALSE)
    /\ exc' = mkdir_exc(work[p])
    /\ dirs' = IF mkdir_exc(work[p]) = NoExc THEN mkdir(work[p]) ELSE dirs
    /\ stack' = IF mkdir_exc(work[p]) = NoExc
                THEN Append(stack, Frame("with", [run |-> p])) ELSE stack
    /\ UNCHANGED <<files, work, work_frame>>

\* the block is left, at its end or by the exception e raised in it:
\* TmpDir.__exit__ removes the workspace, then IOBaseObj.__exit__ returns
Exit(p) ==
    /\ InBlock(p)
    /\ \E e \in {NoExc, Exc("RuntimeError")} :
          LET t == rmdir_target(work[p], TmpDir_exit)
          IN  /\ dirs' = IF t = None THEN dirs ELSE RmTreeDirs(dirs, t)
              /\ files' = IF t = None THEN files ELSE RmTreeFiles(files, t)
              /\ exc' = IOBaseObj_exit(e)
              /\ call' = [raised |-> e] @@ Called("exit", p, TmpDir_exit)
    /\ stack' = Left(p)
    /\ UNCHANGED <<work, work_frame>>

\* copy(f, TmpFile(os.path.basename(f), work_tmp.src).file)
StageInput(p, f) ==
    /\ work[p] # NoWork
    /\ LET dst == TmpFile(BaseName(f), work[p].src).file
       IN  /\ exc' = copy_exc(f, dst)
           /\ files' = IF copy_exc(f, dst) = NoExc THEN Write(files, dst :> files[f])
                       ELSE files
    /\ call' = Called("copy", p, FALSE)
    /\ UNCHANGED <<dirs, work, stack, work_frame>>

\* work_tmp.rmdir(rm_parent)
Teardown(p, rm_parent) ==
    /\ work[p] # NoWork
    /\ LET t == rmdir_target(work[p], rm_parent)
       IN  /\ exc' = IF t = None THEN NoExc ELSE RmTreeExc(t, TRUE)
           /\ dirs' = IF t = None THEN dirs ELSE RmTreeDirs(dirs, t)
           /\ files' = IF t = None THEN files ELSE RmTreeFiles(files, t)
    /\ call' = Called("rmdir", p, rm_parent)
    /\ UNCHANGED <<work, stack, work_frame>>

\* the run ends after its teardown; the next run of p allocates its own workspace
Release(p) ==
    /\ work[p] # NoWork
    /\ ~InBlock(p)
    /\ ~Exists(work[p].src)
    /\ work' = [work EXCEPT ![p] = NoWork]
    /\ call' = Called("return", p, FALSE)
    /\ exc' = NoExc
    /\ UNCHANGED <<dirs, files, stack, work_frame>>

NextWork ==
    \E p \in Runs :
       \/ Allocate(p)
       \/ Materialize(p)
       \/ StageInput(p, "/in/dwi.nii.gz")
       \/ \E rm_parent \in BOOLEAN : Teardown(p, rm_parent)
       \/ Release(p)
       \/ Enter(p)
       \/ Exit(p)
SpecWork == InitWork /\ [][NextWork]_vars

(***************************************************************************)
(* main: the command line, then the orchestrator.                          *)
(***************************************************************************)
Executables ==
    {"mrconvert", "dwi2response", "mrresize", "mrgrid", "dwiextract", "fslmaths", "bet",
     "ss3t_csd_beta1", "mtnormalise", "fod2dec", "/scripts/dwi_extra.sh", "tckgen",
     "tcksift", "dwi2tensor", "tensor2metric", "tck2connectome", "tcksample",
     "flirt", "fnirt", "applywarp"}
scripts_dir == "/scripts"

\* a number [n, float]: the integer n, or the float of that value
\* int(x)
PyInt(x) == x.n
\* f"{x}"
PyFormat(x) == IF x.float THEN ToString(x.n) \o ".0" ELSE ToString(x.n)
\* --stream-lines: type=int applies to a given value, the default 1e5 is a float
StreamLinesDefault == [n |-> 100000, float |-> TRUE]
StreamLines == {StreamLinesDefault, [n |-> 5000, float |-> FALSE]}

\* the values of the command line options
Options ==
    [dwi : {"/in/dwi.nii", "/in/dwi.nii.gz", "/in/sub.dwi.nii.gz"}, bval : {"/in/dwi.bval"}, bvec : {"/in/dwi.bvec"},
     template : {"/atlas/template.nii"}, template_brain : {"/atlas/template_brain.nii"},
     labels : {"/atlas/labels.nii"}, out_dir : {"/out"},
     json : {None, "/in/dwi.json"}, log : {"file.log"}, cwd : {FALSE},
     no_cleanup_given : BOOLEAN,
     force : {FALSE}, gzip : BOOLEAN, vox : {"1.5"}, erode : {0, 2}, fa_thresh : {"0.2", "0.4"},
     dof : {6, 12}, frac_int : {"0.5"}, stream_lines : StreamLines, cutoff : {"0.07"},
     filter_tracts : BOOLEAN, term : {0, 50000},   \* term 0 stands for no --term (None)
     symmetric : {FALSE}, zero_diagonal : {FALSE},
     fa : BOOLEAN, md : BOOLEAN, ad : BOOLEAN, rd : BOOLEAN,
     on_path : {Executables \ m : m \in SUBSET {"mrresize", "mrgrid"}}
                   \cup {Executables \ {"flirt"}, Executables \ {"ss3t_csd_beta1"}}]

\* the options of c that differ from a run on a complete installation with a
\* compressed DWI, a sidecar, filtering, no --no-cleanup, no --term, no --gzip
\* and the defaults of --dof, --stream-lines, --erode and --fa-thresh
Departures(c) ==
    {o \in {"dwi", "json", "filter_tracts", "on_path", "no_cleanup_given", "term", "gzip",
            "dof", "stream_lines", "erode", "fa_thresh"} :
        \/ o = "dwi" /\ c.dwi # "/in/dwi.nii.gz"
        \/ o = "json" /\ c.json = None
        \/ o = "filter_tracts" /\ ~c.filter_tracts
        \/ o = "on_path" /\ c.on_path # Executables
        \/ o = "no_cleanup_given" /\ c.no_cleanup_given
        \/ o = "term" /\ c.term # 0
        \/ o = "gzip" /\ c.gzip
        \/ o = "dof" /\ c.dof # 12
        \/ o = "stream_lines" /\ c.stream_lines # StreamLinesDefault
        \/ o = "erode" /\ c.erode # 0
        \/ o = "fa_thresh" /\ c.fa_thresh # "0.2"}

\* the command lines the model runs main with: every choice of metric maps with
\* the other options as above, and every departure of one option with the FA
\* map alone, as well as a --term given without --filter-tracts
CommandLines ==
    {c \in Options :
        \/ Departures(c) = {}
        \/ Cardinality(Departures(c)) = 1 /\ c.fa /\ ~c.md /\ ~c.ad /\ ~c.rd
        \/ Departures(c) = {"filter_tracts", "term"} /\ c.fa /\ ~c.md /\ ~c.ad /\ ~c.rd}

\* the files named on the command line exist
InputFiles(c) ==
    {c.dwi, c.bval, c.bvec, c.template, c.template_brain, c.labels}
        \cup (IF c.json # None THEN {c.json} ELSE {})

Init ==
    /\ cfg \in CommandLines
    /\ stack = <<Frame("main", <<>>)>>
    /\ exc = NoExc
    /\ cwd = "/"
    /\ ret = <<>>
    /\ dirs = {"/in", "/atlas", "/scripts"}
    /\ files = [q \in InputFiles(cfg) |-> Content("input", q)]
    /\ log = <<>>
    /\ trace = <<>>
    /\ last = NoCmd
    /\ call = NoCall
    /\ result = NoResult
    /\ work = <<>>
    /\ art = NoArt
    /\ environ = HostEnviron
    /\ handlers = NoHandlers

\* argparse: '--no-cleanup' is declared with action="store_false", default=False
parse_no_cleanup(given) == IF given THEN FALSE ELSE FALSE

\* the dependency checks of main: `if not which("flirt"): FSLError(...)` and
\* `if not which("ss3t_csd_beta1"): MRtrixError(...)` build an exception object
\* and do not raise it; the result is the exception that leaves main
dependency_exc(on_path) ==
    IF "flirt" \notin on_path THEN NoExc
    ELSE IF "ss3t_csd_beta1" \notin on_path THEN NoExc
    ELSE NoExc

\* a Python step of the running function that spawns nothing
PyStep(ev, ndirs, nfiles, nstack, nret) ==
    /\ trace' = IF ev = <<>> THEN trace ELSE trace \o ev
    /\ dirs' = ndirs
    /\ files' = nfiles
    /\ stack' = nstack
    /\ ret' = nret
    /\ UNCHANGED <<cfg, exc, cwd, log, last, call, result, work, art, environ, handlers>>

\* variant: the copy is named by the file name without its extension
out_file_stem(f) == PathJoin(cfg.out_dir, file_parts(f, "").filename)
\* os.path.join(args.out_dir, os.path.basename(f.file))
out_file(f) == PathJoin(cfg.out_dir, BaseName(f.file))

main ==
    /\ In("main")
    /\ LET l == Top.l
           no_cleanup == parse_no_cleanup(cfg.no_cleanup_given)
           cleanup == IF no_cleanup THEN FALSE ELSE TRUE
           work_tmp_dir == PathJoin(cfg.out_dir, "work.tmp")
           out(f) == out_file(f)
           \* copy(f.file, out(f)), then step k
           CopyOut(f, site, k) ==
               IF copy_exc(f.file, out(f)) # NoExc
               THEN Raise(copy_exc(f.file, out(f)))
               ELSE PyStep(<<Event(site, "copy", 0)>>, dirs,
                           Write(files, out(f) :> files[f.file]), Goto(k, <<>>), ret)
           \* if os.path.exists(f.file): copy(f.file, out(f)); then step k
           CopyIfExists(f, site, k) ==
               IF Exists(f.file) THEN CopyOut(f, site, k)
               ELSE PyStep(<<>>, dirs, files, Goto(k, <<>>), ret)
       IN  \/ /\ Top.k = 1
              /\ dependency_exc(cfg.on_path) = NoExc
              /\ cwd' = cfg.out_dir
              /\ dirs' = IF Exists(cfg.out_dir) THEN dirs ELSE MakeDirs(dirs, cfg.out_dir)
              /\ stack' = CallAt(2, [cleanup |-> cleanup], "create_structural_connectome",
                     [dwi |-> cfg.dwi, bval |-> cfg.bval, bvec |-> cfg.bvec,
                      template |-> cfg.template, template_brain |-> cfg.template_brain,
                      labels |-> cfg.labels, json |-> cfg.json, log |-> cfg.log,
                      work_dir |-> work_tmp_dir, use_cwd |-> cfg.cwd, force |-> cfg.force,
                      gzip |-> cfg.gzip, erode |-> cfg.erode, fa_thresh |-> cfg.fa_thresh,
                      vox |-> cfg.vox, dof |-> cfg.dof, frac_int |-> cfg.frac_int,
                      stream_lines |-> cfg.stream_lines, cutoff |-> cfg.cutoff,
                      filter_tracts |-> cfg.filter_tracts, term |-> cfg.term,
                      symmetric |-> cfg.symmetric, zero_diagonal |-> cfg.zero_diagonal,
                      fa |-> cfg.fa, md |-> cfg.md, ad |-> cfg.ad, rd |-> cfg.rd,
                      cleanup |-> cleanup])
              /\ UNCHANGED <<cfg, exc, ret, files, log, trace, last, call, result, work, art, environ, handlers>>
           \/ /\ Top.k = 2
              /\ IF copy_exc(ret.connectome.file, out(ret.connectome)) # NoExc
                 THEN Raise(copy_exc(ret.connectome.file, out(ret.connectome)))
                 ELSE PyStep(<<Event("main:copy:connectome", "copy", 0)>>, dirs,
                             Write(files, out(ret.connectome) :> files[ret.connectome.file]),
                             Goto(3, ret), ret)
           \/ /\ Top.k = 3
              /\ CopyOut(l.labels_native, "main:copy:labels_native", 4)
           \/ /\ Top.k = 4
              /\ CopyOut(l.head, "main:copy:head", 5)
           \/ /\ Top.k = 5
              /\ CopyIfExists(l.fa_connectome, "main:copy:fa_connectome", 6)
           \/ /\ Top.k = 6
              /\ CopyIfExists(l.md_connectome, "main:copy:md_connectome", 7)
           \/ /\ Top.k = 7
              /\ CopyIfExists(l.ad_connectome, "main:copy:ad_connectome", 8)
           \/ /\ Top.k = 8
              /\ CopyIfExists(l.rd_connectome, "main:copy:rd_connectome", 9)
           \/ /\ Top.k = 9
              /\ IF l.cleanup /\ rmdir_target(l.work_tmp, TRUE) # None
                 THEN PyStep(<<EventAt("main:rm_tmp_dir", "rmdir",
                                     rmdir_target(l.work_tmp, TRUE))>>,
                             RmTreeDirs(dirs, rmdir_target(l.work_tmp, TRUE)),
                             RmTreeFiles(files, rmdir_target(l.work_tmp, TRUE)), <<>>, <<>>)
                 ELSE IF l.cleanup
                 THEN PyStep(<<EventAt("main:rm_tmp_dir", "rmdir", None)>>, dirs, files,
                             <<>>, <<>>)
                 ELSE PyStep(<<>>, dirs, files, <<>>, <<>>)

(***************************************************************************)
(* Stage objects.                                                          *)
(***************************************************************************)
\* ReconMRtrix.__init__
ReconMRtrix(nii_file, bval, bvec, json_file, lg) ==
    [nii_file |-> NiiFile(nii_file), bval |-> File(bval, ""), bvec |-> File(bvec, ""),
     json_file |-> File(IF json_file # None /\ json_file # "" THEN json_file ELSE "", ""),
     log |-> lg]

\* DWIxfm.__init__ (dwi_json is a file name here)
DWIxfm(dwi_file, dwi_bval, dwi_bvec, template, template_brain, labels, lg, dwi_json) ==
    [dwi_file |-> NiiFile(dwi_file), dwi_bval |-> File(dwi_bval, ""),
     dwi_bvec |-> File(dwi_bvec, ""), dwi_json |-> File(dwi_json, ""),
     template |-> NiiFile(template), template_brain |-> NiiFile(template_brain),
     labels |-> NiiFile(labels), log |-> lg]

\* the copies that stage dwi, bval, bvec and (when given) json into the directory d
StageCopies(a, d) ==
    <<  <<a.dwi, TmpFile(BaseName(a.dwi), d).file>>,
        <<a.bval, TmpFile(BaseName(a.bval), d).file>>,
        <<a.bvec, TmpFile(BaseName(a.bvec), d).file>> >>
    \o (IF a.json # None /\ a.json # ""
        THEN << <<a.json, TmpFile(BaseName(a.json), d).file>> >> ELSE <<>>)

\* the locals bound by the staging code
StageLocals(a, d) ==
    [f_tmp |-> TmpFile(BaseName(a.dwi), d), b_tmp |-> TmpFile(BaseName(a.bval), d),
     e_tmp |-> TmpFile(BaseName(a.bvec), d)]
    @@ (IF a.json # None /\ a.json # ""
        THEN [j_tmp |-> TmpFile(BaseName(a.json), d)] ELSE <<>>)

(***************************************************************************)
(* create_structural_connectome: the orchestrator.                         *)
(***************************************************************************)
create_structural_connectome ==
    /\ In("create_structural_connectome")
    /\ LET a == Top.a
           l == Top.l
           work_dir == IF a.work_dir # None /\ a.work_dir # "" THEN a.work_dir ELSE "work.tmp"
           use_cwd == IF a.work_dir # None /\ a.work_dir # "" THEN a.use_cwd ELSE TRUE
           ctx == "dwi"
       IN  \/ /\ Top.k = 1
              /\ \E r \in 0..MaxSuffix :
                   LET work_tmp == TmpDir(work_dir, use_cwd, r, cwd)
                   IN  PyStep(<<EventAt("csc:mk_tmp_dir", "mkdir", work_tmp.src)>>,
                              mkdir(work_tmp), files,
                              Goto(2, [work_tmp |-> work_tmp]), ret)
           \/ /\ Top.k = 2
              /\ IF copies_exc(StageCopies(a, l.work_tmp.src)) # NoExc
                 THEN Raise(copies_exc(StageCopies(a, l.work_tmp.src)))
                 ELSE PyStep(<<Event("csc:stage", "stage", 0)>>, dirs,
                             copies_files(files, StageCopies(a, l.work_tmp.src)),
                             Goto(3, StageLocals(a, l.work_tmp.src)
                                     @@ [j_tmp |-> [file |-> None, ext |-> None]]), ret)
           \/ /\ Top.k = 3
              /\ IF l.j_tmp.file = None
                 THEN Raise(Exc("AttributeError"))  \* j_tmp is None: j_tmp.file
                 ELSE PyStep(<<>>, dirs, files,
                        CallAt(4, <<>>, "compute_xfm",
                          [dwi |-> l.f_tmp.file, bval |-> l.b_tmp.file, bvec |-> l.e_tmp.file,
                           template |-> a.template, template_brain |-> a.template_brain,
                           labels |-> a.labels, json |-> l.j_tmp.file, log |-> a.log,
                           work_dir |-> work_dir, use_cwd |-> use_cwd, dof |-> a.dof,
                           frac_int |-> a.frac_int]), ret)
           \/ /\ Top.k = 4
              /\ LET mr_diff == ReconMRtrix(l.f_tmp.file, l.b_tmp.file, l.e_tmp.file,
                                            l.j_tmp.file, a.log)
                 IN  PyStep(<<>>, dirs, files,
                        CallAt(5, [labels_native |-> ret.labels_native,
                                   non_lin_out |-> ret.nl_out, mr_diff |-> mr_diff],
                               "nifti_to_mif",
                               [ctx |-> ctx, self |-> mr_diff, force |-> a.force,
                                gzip |-> a.gzip]), ret)
           \/ /\ Top.k = 5
              /\ PyStep(<<>>, dirs, files,
                    CallAt(6, [dwi_miff |-> ret], "estimate_response",
                           [ctx |-> ctx, self |-> l.mr_diff, mif |-> ret,
                            method |-> "dhollander", erode |-> a.erode,
                            fa_thresh |-> a.fa_thresh, force |-> a.force, gzip |-> FALSE]),
                    ret)
           \/ /\ Top.k = 6
              /\ PyStep(<<>>, dirs, files,
                    CallAt(7, [wm_res |-> ret.wm_res, gm_res |-> ret.gm_res,
                               csf_res |-> ret.csf_res], "mr_upsample",
                           [ctx |-> ctx, tag |-> "dwi", self |-> l.mr_diff, mif |-> l.dwi_miff,
                            vox |-> a.vox, interp |-> "cubic", gzip |-> FALSE]), ret)
           \/ /\ Top.k = 7
              /\ PyStep(<<>>, dirs, files,
                    CallAt(8, [up_dwi_mif |-> ret], "mr_upsample",
                           [ctx |-> ctx, tag |-> "labels", self |-> l.mr_diff,
                            mif |-> l.labels_native, vox |-> a.vox, interp |-> "nearest",
                            gzip |-> FALSE]), ret)
           \/ /\ Top.k = 8
              /\ PyStep(<<>>, dirs, files,
                    CallAt(9, [up_labels_native |-> ret], "create_mask",
                           [ctx |-> ctx, self |-> l.mr_diff, mif |-> l.up_dwi_mif,
                            frac_int |-> a.frac_int, gzip |-> FALSE, cleanup |-> TRUE]), ret)
           \/ /\ Top.k = 9
              /\ PyStep(<<>>, dirs, files,
                    CallAt(10, [mask |-> ret.mask_mif, brain |-> ret.brain_mif,
                                head |-> ret.head_mif], "ss3t_csd",
                           [ctx |-> ctx, self |-> l.mr_diff, mif |-> l.up_dwi_mif,
                            mask |-> ret.mask_mif, wm_res |-> l.wm_res, gm_res |-> l.gm_res,
                            csf_res |-> l.csf_res, gzip |-> FALSE]), ret)
           \/ /\ Top.k = 10
              /\ PyStep(<<>>, dirs, files,
                    CallAt(11, [wm_fod |-> ret.wm_fod, gm |-> ret.gm_tis, csf |-> ret.csf_tis],
                           "bias_field_correction",
                           [ctx |-> ctx, self |-> l.mr_diff, wm_fod |-> ret.wm_fod,
                            gm_tis |-> ret.gm_tis, csf_tis |-> ret.csf_tis, mask |-> l.mask,
                            gzip |-> FALSE]), ret)
           \/ /\ Top.k = 11
              /\ PyStep(<<>>, dirs, files,
                    CallAt(12, [wm_fod_norm |-> ret.wm_fod_norm, gm_norm |-> ret.gm_tis_norm,
                                csf_norm |-> ret.csf_tis_norm], "compute_dec_map",
                           [ctx |-> ctx, self |-> l.mr_diff, wm_fod |-> ret.wm_fod_norm,
                            gm_tis |-> ret.gm_tis_norm, csf_tis |-> ret.csf_tis_norm,
                            mask |-> l.mask, gzip |-> FALSE]), ret)
           \/ /\ Top.k = 12
              /\ PyStep(<<>>, dirs, files,
                    CallAt(IF a.filter_tracts THEN 13 ELSE 14, [dec |-> ret.dec, vf |-> ret.vf],
                           "mr_tck_global",
                           [ctx |-> ctx, self |-> l.mr_diff, wm_fod |-> l.wm_fod_norm,
                            mask |-> l.mask, stream_lines |-> a.stream_lines,
                            cutoff |-> a.cutoff]), ret)
           \/ /\ Top.k = 13
              /\ PyStep(<<>>, dirs, files,
                    CallAt(14, [tmp_tcks |-> ret], "mr_tck_sift",
                           [ctx |-> ctx, self |-> l.mr_diff, tck |-> ret,
                            wm_fod |-> l.wm_fod_norm, term |-> a.term, mask |-> l.mask]), ret)
           \/ /\ Top.k = 14
              /\ PyStep(<<>>, dirs, files,
                    CallAt(15, [tcks |-> ret], "structural_connectome",
                           [ctx |-> ctx, self |-> l.mr_diff, tck |-> ret,
                            labels |-> l.up_labels_native, dwi |-> l.up_dwi_mif,
                            mask |-> l.mask, symmetric |-> a.symmetric,
                            zero_diagonal |-> a.zero_diagonal, fa |-> a.fa, md |-> a.md,
                            ad |-> a.ad, rd |-> a.rd, force |-> a.force,
                            cleanup |-> a.cleanup]), ret)
           \/ /\ Top.k = 15
              /\ PyStep(<<>>, dirs, files, Pop,
                        [connectome |-> ret.connectome, fa_connectome |-> ret.fa_connectome,
                         md_connectome |-> ret.md_connectome,
                         ad_connectome |-> ret.ad_connectome,
                         rd_connectome |-> ret.rd_connectome,
                         labels_native |-> l.labels_native, head |-> l.head,
                         work_tmp |-> l.work_tmp])

(***************************************************************************)
(* compute_xfm: the registration stage.                                    *)
(***************************************************************************)
\* variant: the configured degrees of freedom are handed to the linear step
linear_dof_configured(a) == a.dof
\* the dof argument compute_xfm gives compute_linear_xfm: the literal 12
linear_dof(a) == 12

compute_xfm ==
    /\ In("compute_xfm")
    /\ LET a == Top.a
           l == Top.l
           work_dir == IF a.work_dir # None /\ a.work_dir # "" THEN a.work_dir ELSE "work.tmp"
           use_cwd == IF a.work_dir # None /\ a.work_dir # "" THEN a.use_cwd ELSE TRUE
           ctx == "xfm"
       IN  \/ /\ Top.k = 1
              /\ \E r \in 0..MaxSuffix :
                   LET work_tmp == TmpDir(work_dir, use_cwd, r, cwd)
                   IN  PyStep(<<EventAt("xfm:mk_tmp_dir", "mkdir", work_tmp.src)>>,
                              mkdir(work_tmp), files,
                              Goto(2, [work_tmp |-> work_tmp]), ret)
           \/ /\ Top.k = 2
              /\ IF copies_exc(StageCopies(a, l.work_tmp.src)) # NoExc
                 THEN Raise(copies_exc(StageCopies(a, l.work_tmp.src)))
                 ELSE PyStep(<<Event("xfm:stage", "stage", 0)>>, dirs,
                             copies_files(files, StageCopies(a, l.work_tmp.src)),
                             Goto(3, StageLocals(a, l.work_tmp.src)), ret)
           \/ /\ Top.k = 3
              /\ IF "j_tmp" \notin DOMAIN l
                 THEN Raise(Exc("UnboundLocalError"))  \* j_tmp was never assigned
                 ELSE LET dwi == DWIxfm(l.f_tmp.file, l.b_tmp.file, l.e_tmp.file, a.template,
                                        a.template_brain, a.labels, a.log, l.j_tmp.file)
                      IN  PyStep(<<>>, dirs, files,
                                 CallAt(4, [dwi |-> dwi], "mask_dwi",
                                        [ctx |-> ctx, self |-> dwi, frac_int |-> a.frac_int]),
                                 ret)
           \/ /\ Top.k = 4
              /\ PyStep(<<>>, dirs, files,
                    CallAt(5, [mask |-> ret.mask, brain |-> ret.brain, head |-> ret.head],
                           "compute_linear_xfm",
                           [ctx |-> ctx, self |-> l.dwi, dwi_brain |-> ret.brain,
                            dof |-> linear_dof(a)]),
                    ret)
           \/ /\ Top.k = 5
              /\ PyStep(<<>>, dirs, files,
                    CallAt(6, [xfm_mat |-> ret.xfm_mat, xfm_out |-> ret.xfm_out],
                           "compute_non_linear_xfm",
                           [ctx |-> ctx, self |-> l.dwi, xfm_mat |-> ret.xfm_mat,
                            dwi_head |-> l.head]), ret)
           \/ /\ Top.k = 6
              /\ PyStep(<<>>, dirs, files,
                    CallAt(7, [nl_out |-> ret.nl_out, nl_warp |-> ret.nl_warp,
                               nl_wpcf |-> ret.nl_wpcf], "applywarp",
                           [ctx |-> ctx, self |-> l.dwi, dwi_head |-> l.head,
                            non_lin_warp |-> ret.nl_warp, interp |-> "nn", rel |-> TRUE,
                            premat |-> NoFile]), ret)
           \/ /\ Top.k = 7
              /\ PyStep(<<>>, dirs, files, Pop,
                        [labels_native |-> ret, nl_out |-> l.nl_out])

(***************************************************************************)
(* ReconMRtrix: the steps of the diffusion-processing stage.               *)
(***************************************************************************)
Opt(c, args) == IF c THEN args ELSE <<>>
Truthy(v) == v # None /\ v # ""
\* the outputs outs, all written by the command at site
Wrote(site, outs, of) == [q \in outs |-> Content(site, of)]

nifti_to_mif ==
    /\ In("nifti_to_mif")
    /\ LET a == Top.a
           self == a.self
           mif_file == Mif(AbsPath(cwd, self.nii_file.file), a.gzip)
           site == Site(a.ctx, "nifti_to_mif", "mrconvert")
           \* self.json_file is a File object: always true
           cmd == <<"mrconvert">> \o Opt(a.force, <<"-force">>)
                  \o <<"-json_import", self.json_file.file>>
                  \o <<"-fslgrad", self.bvec.file, self.bval.file, self.nii_file.file,
                       mif_file.file>>
       IN  Spawn(site, cmd,
                 {self.json_file.file, self.bvec.file, self.bval.file, self.nii_file.file},
                 Wrote(site, {mif_file.file}, "dwi"), Pop, mif_file)

estimate_response ==
    /\ In("estimate_response")
    /\ LET a == Top.a
           self == a.self
           fp == file_parts(self.nii_file, "")
           wm_res == File(PathJoin(fp.path, fp.filename \o "_response_wm.txt"), "")
           gm_res == File(PathJoin(fp.path, fp.filename \o "_response_gm.txt"), "")
           csf_res == File(PathJoin(fp.path, fp.filename \o "_response_csf.txt"), "")
           site == Site(a.ctx, "estimate_response", "dwi2response")
           cmd == <<"dwi2response">> \o Opt(a.force, <<"-force">>)
                  \o <<a.method, a.mif.file, wm_res.file, gm_res.file, csf_res.file>>
       IN  Spawn(site, cmd, {a.mif.file},
                 Wrote(site, {wm_res.file, gm_res.file, csf_res.file}, "response"), Pop,
                 [wm_res |-> wm_res, gm_res |-> gm_res, csf_res |-> csf_res])

\* variant: every executable is taken to be installed
check_dependency_assumed(exe) == TRUE

\* Command.check_dependency: shutil.which finds the executable
check_dependency(exe) == exe \in cfg.on_path

mr_upsample ==
    /\ In("mr_upsample")
    /\ LET a == Top.a
           self == a.self
           mif == a.mif
           is_mif == Contains(mif.file, ".mif")
           is_nii == Contains(mif.file, ".nii")
           is_gz == Contains(mif.file, ".gz")
           gzip == IF (is_mif \/ is_nii) /\ is_gz THEN TRUE ELSE a.gzip
           e == IF is_mif THEN (IF is_gz THEN ".mif.gz" ELSE ".mif")
                ELSE (IF is_gz THEN ".nii.gz" ELSE ".nii")
           fp == file_parts(mif, e)
           upsampled_mif == Mif(PathJoin(fp.path, fp.filename \o "_upsampled" \o ".mif"), gzip)
           interp == Opt(Truthy(a.interp), <<"-interp", a.interp>>)
           mrresize == <<"mrresize", mif.file, "-vox", a.vox, upsampled_mif.file>> \o interp
           mrgrid == <<"mrgrid", mif.file, "regrid", upsampled_mif.file, "-voxel", a.vox>>
                     \o interp
           site(exe) == Site(a.ctx, "mr_upsample", exe \o ":" \o a.tag)
       IN  \/ /\ ~is_mif /\ ~is_nii
              /\ Raise(Exc("UnboundLocalError"))  \* _ext was never assigned
           \/ /\ is_mif \/ is_nii
              /\ check_dependency("mrresize")
              /\ Spawn(site("mrresize"), mrresize, {mif.file},
                       Wrote(site("mrresize"), {upsampled_mif.file}, Prov(mif.file)), Pop,
                       upsampled_mif)
           \/ /\ is_mif \/ is_nii
              /\ ~check_dependency("mrresize")
              /\ check_dependency("mrgrid")
              /\ Spawn(site("mrgrid"), mrgrid, {mif.file},
                       Wrote(site("mrgrid"), {upsampled_mif.file}, Prov(mif.file)), Pop,
                       upsampled_mif)
           \/ /\ is_mif \/ is_nii
              /\ ~check_dependency("mrresize")
              /\ ~check_dependency("mrgrid")
              /\ Raise(Exc("DependencyError"))

create_mask ==
    /\ In("create_mask")
    /\ LET a == Top.a
           l == Top.l
           self == a.self
           mif == a.mif
           np == file_parts(self.nii_file, "")
           mp == file_parts(mif, "")
           path == np.path
           e == np.ext
           gzip == IF Contains(mif.file, ".gz") THEN TRUE ELSE a.gzip
           brain_mif == Mif(PathJoin(path, mp.filename \o "_brain" \o mp.ext), gzip)
           mask_mif == Mif(PathJoin(path, mp.filename \o "_brain" \o "_mask" \o mp.ext), gzip)
           head_mif == Mif(PathJoin(path, mp.filename \o "_head" \o mp.ext), gzip)
           site(tag) == Site(a.ctx, "create_mask", tag)
           Cmd(tag, cmd, ins, outs, k) ==
               Spawn(site(tag), cmd, ins, Wrote(site(tag), outs, tag), Goto(k, <<>>), ret)
       IN  \/ /\ Top.k = 1
              /\ \E r \in 0..MaxSuffix :
                   LET work_dir == TmpDir(path, FALSE, r, cwd)
                       tmp_b0s == TmpFile("tmp_B0s" \o e, work_dir.src)
                       tmp_b0 == TmpFile("tmp_B0" \o e, work_dir.src)
                       tmp_mask == TmpFile(rm_ext(tmp_b0, e) \o "_brain" \o e, work_dir.src)
                   IN  PyStep(<<EventAt(site("mk_tmp_dir"), "mkdir", work_dir.src)>>,
                              mkdir(work_dir), files,
                              Goto(2, [work_dir |-> work_dir, tmp_b0s |-> tmp_b0s,
                                       tmp_b0 |-> tmp_b0, tmp_mask |-> tmp_mask]), ret)
           \/ /\ Top.k = 2
              /\ Cmd("dwiextract", <<"dwiextract", "-bzero", mif.file, l.tmp_b0s.file>>,
                     {mif.file}, {l.tmp_b0s.file}, 3)
           \/ /\ Top.k = 3
              /\ Cmd("fslmaths", <<"fslmaths", l.tmp_b0s.file, "-Tmean", l.tmp_b0.file>>,
                     {l.tmp_b0s.file}, {l.tmp_b0.file}, 4)
           \/ /\ Top.k = 4
              \* bet -m writes the brain image and the mask image <output>_mask
              /\ Cmd("bet", <<"bet", l.tmp_b0.file, l.tmp_mask.file, "-R", "-m", "-f",
                              a.frac_int>>,
                     {l.tmp_b0.file},
                     {l.tmp_mask.file, rm_ext(l.tmp_mask, e) \o "_mask.nii.gz"}, 5)
           \/ /\ Top.k = 5
              /\ Cmd("mrconvert:mask",
                     <<"mrconvert", rm_ext(l.tmp_mask, e) \o "_mask.nii.gz", mask_mif.file>>,
                     {rm_ext(l.tmp_mask, e) \o "_mask.nii.gz"}, {mask_mif.file}, 6)
           \/ /\ Top.k = 6
              /\ Cmd("mrconvert:brain", <<"mrconvert", l.tmp_mask.file, brain_mif.file>>,
                     {l.tmp_mask.file}, {brain_mif.file}, 7)
           \/ /\ Top.k = 7
              /\ Cmd("mrconvert:head", <<"mrconvert", l.tmp_b0.file, head_mif.file>>,
                     {l.tmp_b0.file}, {head_mif.file}, 8)
           \/ /\ Top.k = 8
              /\ LET t == rmdir_target(l.work_dir, FALSE)
                     v == [mask_mif |-> mask_mif, brain_mif |-> brain_mif,
                           head_mif |-> head_mif]
                 IN  IF a.cleanup /\ t # None
                     THEN PyStep(<<EventAt(site("rm_tmp_dir"), "rmdir", t)>>,
                                 RmTreeDirs(dirs, t), RmTreeFiles(files, t), Pop, v)
                     ELSE PyStep(<<>>, dirs, files, Pop, v)

ss3t_csd ==
    /\ In("ss3t_csd")
    /\ LET a == Top.a
           self == a.self
           path == file_parts(self.nii_file, "").path
           mp == file_parts(a.mif, "")
           gzip == IF Contains(a.mif.file, ".gz") THEN TRUE ELSE a.gzip
           wm_fod == Mif(PathJoin(path, mp.filename \o "_wm_fod" \o mp.ext), gzip)
           gm_tis == Mif(PathJoin(path, mp.filename \o "_gm_tis" \o mp.ext), gzip)
           csf_tis == Mif(PathJoin(path, mp.filename \o "_csf_tis" \o mp.ext), gzip)
           site == Site(a.ctx, "ss3t_csd", "ss3t_csd_beta1")
           cmd == <<"ss3t_csd_beta1", a.mif.file, a.wm_res.file, wm_fod.file, a.gm_res.file,
                    gm_tis.file, a.csf_res.file, csf_tis.file, "-mask", a.mask.file>>
       IN  Spawn(site, cmd,
                 {a.mif.file, a.wm_res.file, a.gm_res.file, a.csf_res.file, a.mask.file},
                 Wrote(site, {wm_fod.file, gm_tis.file, csf_tis.file}, "tissue"), Pop,
                 [wm_fod |-> wm_fod, gm_tis |-> gm_tis, csf_tis |-> csf_tis])
\* variant: the normalised files are named and returned, mtnormalise is not run
bias_field_correction_not_run ==
    /\ In("bias_field_correction")
    /\ LET a == Top.a
           fp == file_parts(a.self.nii_file, "")
           is_gz == Contains(a.wm_fod.file, ".gz")
           gzip == IF is_gz THEN TRUE ELSE a.gzip
           e == IF is_gz THEN ".mif.gz" ELSE ".mif"
       IN  PyStep(<<>>, dirs, files, Pop,
                  [wm_fod_norm |-> Mif(PathJoin(fp.path, fp.filename \o "_wm_fod_norm" \o e),
                                       gzip),
                   gm_tis_norm |-> Mif(PathJoin(fp.path, fp.filename \o "_gm_tis_norm" \o e),
                                       gzip),
                   csf_tis_norm |-> Mif(PathJoin(fp.path, fp.filename \o "_csf_tis_norm" \o e),
                                        gzip)])

bias_field_correction ==
    /\ In("bias_field_correction")
    /\ LET a == Top.a
           self == a.self
           fp == file_parts(self.nii_file, "")
           is_gz == Contains(a.wm_fod.file, ".gz")
           gzip == IF is_gz THEN TRUE ELSE a.gzip
           e == IF is_gz THEN ".mif.gz" ELSE ".mif"
           wm_fod_norm == Mif(PathJoin(fp.path, fp.filename \o "_wm_fod_norm" \o e), gzip)
           gm_tis_norm == Mif(PathJoin(fp.path, fp.filename \o "_gm_tis_norm" \o e), gzip)
           csf_tis_norm == Mif(PathJoin(fp.path, fp.filename \o "_csf_tis_norm" \o e), gzip)
           site == Site(a.ctx, "bias_field_correction", "mtnormalise")
           cmd == <<"mtnormalise", a.wm_fod.file, wm_fod_norm.file, a.gm_tis.file,
                    gm_tis_norm.file, a.csf_tis.file, csf_tis_norm.file, "-mask", a.mask.file>>
       IN  Spawn(site, cmd, {a.wm_fod.file, a.gm_tis.file, a.csf_tis.file, a.mask.file},
                 Wrote(site, {wm_fod_norm.file, gm_tis_norm.file, csf_tis_norm.file}, "norm"),
                 Pop,
                 [wm_fod_norm |-> wm_fod_norm, gm_tis_norm |-> gm_tis_norm,
                  csf_tis_norm |-> csf_tis_norm])

compute_dec_map ==
    /\ In("compute_dec_map")
    /\ LET a == Top.a
           self == a.self
           fp == file_parts(self.nii_file, "")
           is_gz == Contains(a.wm_fod.file, ".gz")
           gzip == IF is_gz THEN TRUE ELSE a.gzip
           e == IF is_gz THEN ".mif.gz" ELSE ".mif"
           dec == Mif(PathJoin(fp.path, fp.filename \o "_dec" \o e), gzip)
           vf == Mif(PathJoin(fp.path, fp.filename \o "_vf" \o e), gzip)
           vf_calc == PathJoin(scripts_dir, "dwi_extra.sh")
           site(tag) == Site(a.ctx, "compute_dec_map", tag)
       IN  \/ /\ Top.k = 1
              /\ Spawn(site("fod2dec"),
                       <<"fod2dec", a.wm_fod.file, dec.file, "-mask", a.mask.file>>,
                       {a.wm_fod.file, a.mask.file},
                       Wrote(site("fod2dec"), {dec.file}, "dec"), Goto(2, <<>>), ret)
           \/ /\ Top.k = 2
              /\ Spawn(site("dwi_extra.sh"),
                       <<vf_calc, "--wm-fod", a.wm_fod.file, "--gm", a.gm_tis.file, "--csf",
                         a.csf_tis.file, "--out-vf", vf.file>>,
                       {a.wm_fod.file, a.gm_tis.file, a.csf_tis.file},
                       Wrote(site("dwi_extra.sh"), {vf.file}, "vf"), Pop,
                       [dec |-> dec, vf |-> vf])

\* variant: the name of the tractography file does not carry the count
tck_name_plain(filename, stream_lines) == filename \o ".streamlines" \o ".tck"
\* filename + f".{int(stream_lines)}.streamlines" + ".tck"
tck_name(filename, stream_lines) ==
    filename \o "." \o ToString(PyInt(stream_lines)) \o ".streamlines" \o ".tck"

mr_tck_global ==
    /\ In("mr_tck_global")
    /\ LET a == Top.a
           self == a.self
           fp == file_parts(self.nii_file, "")
           tck == File(PathJoin(fp.path, tck_name(fp.filename, a.stream_lines)), "")
           site == Site(a.ctx, "mr_tck_global", "tckgen")
           cmd == <<"tckgen", a.wm_fod.file, tck.file, "-seed_image", a.mask.file, "-select",
                    PyFormat(a.stream_lines), "-cutoff", a.cutoff>>
       IN  Spawn(site, cmd, {a.wm_fod.file, a.mask.file},
                 Wrote(site, {tck.file}, "streamlines"), Pop, tck)

\* variant: the filter is left to choose the number of streamlines it keeps
mr_tck_sift_unbounded ==
    /\ In("mr_tck_sift")
    /\ LET a == Top.a
           self == a.self
           fp == file_parts(self.nii_file, "")
           has_term == a.term # 0
           tck_filt ==
               IF has_term
               THEN File(PathJoin(fp.path, fp.filename \o "." \o ToString(a.term)
                                           \o ".streamlines.filtered" \o ".tck"), "")
               ELSE File(PathJoin(fp.path, fp.filename \o ".streamlines.filtered" \o ".tck"), "")
           has_mask == a.mask # NoFile
           site == Site(a.ctx, "mr_tck_sift", "tcksift")
           cmd == <<"tcksift", a.tck.file, a.wm_fod.file, tck_filt.file>>
                  \o (IF has_mask THEN <<"-proc_mask", a.mask.file>> ELSE <<>>)
       IN  Spawn(site, cmd,
                 {a.tck.file, a.wm_fod.file} \cup (IF has_mask THEN {a.mask.file} ELSE {}),
                 Wrote(site, {tck_filt.file}, "filtered"), Pop, tck_filt)

mr_tck_sift ==
    /\ In("mr_tck_sift")
    /\ LET a == Top.a
           self == a.self
           fp == file_parts(self.nii_file, "")
           has_term == a.term # 0
           tck_filt ==
               IF has_term
               THEN File(PathJoin(fp.path, fp.filename \o "." \o ToString(a.term)
                                           \o ".streamlines.filtered" \o ".tck"), "")
               ELSE File(PathJoin(fp.path, fp.filename \o ".streamlines.filtered" \o ".tck"), "")
           has_mask == a.mask # NoFile
           site == Site(a.ctx, "mr_tck_sift", "tcksift")
           cmd == <<"tcksift", a.tck.file, a.wm_fod.file, tck_filt.file>>
                  \o (IF has_mask THEN <<"-proc_mask", a.mask.file>> ELSE <<>>)
                  \o (IF has_term THEN <<"-term_number", ToString(a.term)>> ELSE <<>>)
       IN  Spawn(site, cmd,
                 {a.tck.file, a.wm_fod.file} \cup (IF has_mask THEN {a.mask.file} ELSE {}),
                 Wrote(site, {tck_filt.file}, "filtered"), Pop, tck_filt)

\* variant: the tensor is written over the image it is fitted to
compute_diff_metrics_inplace ==
    /\ In("compute_diff_metrics")
    /\ LET a == Top.a
           self == a.self
           fp == file_parts(self.nii_file, "")
           e == IF Contains(a.dwi.file, ".gz") THEN ".mif.gz" ELSE ".mif"
           tensor == a.dwi
           md_mif == Mif(PathJoin(fp.path, fp.filename \o ".md" \o e), FALSE)
           fa_mif == Mif(PathJoin(fp.path, fp.filename \o ".fa" \o e), FALSE)
           ad_mif == Mif(PathJoin(fp.path, fp.filename \o ".ad" \o e), FALSE)
           rd_mif == Mif(PathJoin(fp.path, fp.filename \o ".rd" \o e), FALSE)
           has_mask == a.mask # NoFile
           site(tag) == Site(a.ctx, "compute_diff_metrics", tag)
           outs == (IF a.md THEN md_mif.file :> Content(site("tensor2metric"), "md") ELSE <<>>)
                   @@ (IF a.fa THEN fa_mif.file :> Content(site("tensor2metric"), "fa") ELSE <<>>)
                   @@ (IF a.ad THEN ad_mif.file :> Content(site("tensor2metric"), "ad") ELSE <<>>)
                   @@ (IF a.rd THEN rd_mif.file :> Content(site("tensor2metric"), "rd") ELSE <<>>)
       IN  \/ /\ Top.k = 1
              /\ Spawn(site("dwi2tensor"),
                       <<"dwi2tensor", a.dwi.file, tensor.file>>
                           \o Opt(has_mask, <<"-mask", a.mask.file>>)
                           \o Opt(a.force, <<"-force">>),
                       {a.dwi.file} \cup (IF has_mask THEN {a.mask.file} ELSE {}),
                       Wrote(site("dwi2tensor"), {tensor.file}, "tensor"), Goto(2, <<>>), ret)
           \/ /\ Top.k = 2
              /\ Spawn(site("tensor2metric"),
                       <<"tensor2metric", tensor.file>>
                           \o Opt(a.md, <<"-adc", md_mif.file>>)
                           \o Opt(a.fa, <<"-fa", fa_mif.file>>)
                           \o Opt(a.ad, <<"-ad", ad_mif.file>>)
                           \o Opt(a.rd, <<"-rd", rd_mif.file>>),
                       {tensor.file}, outs, Goto(3, <<>>), ret)
           \/ /\ Top.k = 3
              /\ LET v == [fa_mif |-> fa_mif, md_mif |-> md_mif, ad_mif |-> ad_mif,
                           rd_mif |-> rd_mif]
                 IN  IF ~a.cleanup THEN PyStep(<<>>, dirs, files, Pop, v)
                     ELSE IF tensor.file \notin DOMAIN files
                     THEN Raise(Exc("FileNotFoundError"))
                     ELSE PyStep(<<Event(site("remove"), "remove", 0)>>, dirs,
                                 Remove(files, tensor.file), Pop, v)

compute_diff_metrics ==
    /\ In("compute_diff_metrics")
    /\ LET a == Top.a
           self == a.self
           fp == file_parts(self.nii_file, "")
           e == IF Contains(a.dwi.file, ".gz") THEN ".mif.gz" ELSE ".mif"
           tensor == Mif(PathJoin(fp.path, fp.filename \o ".diff_tensor" \o e), FALSE)
           md_mif == Mif(PathJoin(fp.path, fp.filename \o ".md" \o e), FALSE)
           fa_mif == Mif(PathJoin(fp.path, fp.filename \o ".fa" \o e), FALSE)
           ad_mif == Mif(PathJoin(fp.path, fp.filename \o ".ad" \o e), FALSE)
           rd_mif == Mif(PathJoin(fp.path, fp.filename \o ".rd" \o e), FALSE)
           has_mask == a.mask # NoFile
           site(tag) == Site(a.ctx, "compute_diff_metrics", tag)
           outs == (IF a.md THEN md_mif.file :> Content(site("tensor2metric"), "md") ELSE <<>>)
                   @@ (IF a.fa THEN fa_mif.file :> Content(site("tensor2metric"), "fa") ELSE <<>>)
                   @@ (IF a.ad THEN ad_mif.file :> Content(site("tensor2metric"), "ad") ELSE <<>>)
                   @@ (IF a.rd THEN rd_mif.file :> Content(site("tensor2metric"), "rd") ELSE <<>>)
       IN  \/ /\ Top.k = 1
              /\ Spawn(site("dwi2tensor"),
                       <<"dwi2tensor", a.dwi.file, tensor.file>>
                           \o Opt(has_mask, <<"-mask", a.mask.file>>)
                           \o Opt(a.force, <<"-force">>),
                       {a.dwi.file} \cup (IF has_mask THEN {a.mask.file} ELSE {}),
                       Wrote(site("dwi2tensor"), {tensor.file}, "tensor"), Goto(2, <<>>), ret)
           \/ /\ Top.k = 2
              /\ Spawn(site("tensor2metric"),
                       <<"tensor2metric", tensor.file>>
                           \o Opt(a.md, <<"-adc", md_mif.file>>)
                           \o Opt(a.fa, <<"-fa", fa_mif.file>>)
                           \o Opt(a.ad, <<"-ad", ad_mif.file>>)
                           \o Opt(a.rd, <<"-rd", rd_mif.file>>),
                       {tensor.file}, outs, Goto(3, <<>>), ret)
           \/ /\ Top.k = 3
              /\ LET v == [fa_mif |-> fa_mif, md_mif |-> md_mif, ad_mif |-> ad_mif,
                           rd_mif |-> rd_mif]
                 IN  IF ~a.cleanup THEN PyStep(<<>>, dirs, files, Pop, v)
                     ELSE IF tensor.file \notin DOMAIN files
                     THEN Raise(Exc("FileNotFoundError"))
                     ELSE PyStep(<<Event(site("remove"), "remove", 0)>>, dirs,
                                 Remove(files, tensor.file), Pop, v)

\* variant: out_files is filled in the reverse order of metrics
weighting_passes_misaligned(fa, md, ad, rd, maps, cons) ==
    LET names == Opt(fa, <<"fa">>) \o Opt(md, <<"md">>) \o Opt(ad, <<"ad">>)
                 \o Opt(rd, <<"rd">>)
        metrics == Opt(fa, <<maps.fa_mif>>) \o Opt(md, <<maps.md_mif>>)
                   \o Opt(ad, <<maps.ad_mif>>) \o Opt(rd, <<maps.rd_mif>>)
        out_files == Opt(rd, <<cons.rd_connectome>>) \o Opt(ad, <<cons.ad_connectome>>)
                     \o Opt(md, <<cons.md_connectome>>) \o Opt(fa, <<cons.fa_connectome>>)
    IN  [i \in 1..Len(names) |-> <<names[i], metrics[i], out_files[i]>>]
\* the lists metrics and out_files, zipped: one weighting pass per set flag, each
\* with the name of its metric, its metric map and its weighted connectome
weighting_passes(fa, md, ad, rd, maps, cons) ==
    LET names == Opt(fa, <<"fa">>) \o Opt(md, <<"md">>) \o Opt(ad, <<"ad">>)
                 \o Opt(rd, <<"rd">>)
        metrics == Opt(fa, <<maps.fa_mif>>) \o Opt(md, <<maps.md_mif>>)
                   \o Opt(ad, <<maps.ad_mif>>) \o Opt(rd, <<maps.rd_mif>>)
        out_files == Opt(fa, <<cons.fa_connectome>>) \o Opt(md, <<cons.md_connectome>>)
                     \o Opt(ad, <<cons.ad_connectome>>) \o Opt(rd, <<cons.rd_connectome>>)
    IN  [i \in 1..Len(names) |-> <<names[i], metrics[i], out_files[i]>>]

structural_connectome ==
    /\ In("structural_connectome")
    /\ LET a == Top.a
           l == Top.l
           self == a.self
           fp == file_parts(self.nii_file, "")
           name(sfx) == File(PathJoin(fp.path, fp.filename \o sfx), "")
           connectome == name(".structural_connectome" \o ".txt")
           fa_connectome == name(".structural_connectome.fa_weighted" \o ".txt")
           md_connectome == name(".structural_connectome.md_weighted" \o ".txt")
           ad_connectome == name(".structural_connectome.ad_weighted" \o ".txt")
           rd_connectome == name(".structural_connectome.rd_weighted" \o ".txt")
           tmp_metric == name("metric.vertex.mean.csv")
           any == a.fa \/ a.md \/ a.ad \/ a.rd
           flags == Opt(a.symmetric, <<"-symmetric">>) \o Opt(a.zero_diagonal, <<"-zero_diagonal">>)
                    \o Opt(a.force, <<"-force">>)
           site(tag) == Site(a.ctx, "structural_connectome", tag)
           v == [connectome |-> connectome, fa_connectome |-> fa_connectome,
                 md_connectome |-> md_connectome, ad_connectome |-> ad_connectome,
                 rd_connectome |-> rd_connectome]
           passes == weighting_passes(a.fa, a.md, a.ad, a.rd, l, v)
       IN  \/ /\ Top.k = 1
              /\ IF any /\ a.dwi # NoFile
                 THEN PyStep(<<>>, dirs, files,
                        CallAt(2, <<>>, "compute_diff_metrics",
                               [ctx |-> a.ctx, self |-> self, dwi |-> a.dwi, mask |-> a.mask,
                                fa |-> a.fa, md |-> a.md, ad |-> a.ad, rd |-> a.rd,
                                cleanup |-> a.cleanup, force |-> a.force]),
                        [none |-> TRUE])
                 \* without dwi the MRtrixError object is built but not raised
                 ELSE PyStep(<<>>, dirs, files, Goto(2, <<>>), [none |-> TRUE])
           \/ /\ Top.k = 2
              /\ Spawn(site("tck2connectome"),
                       <<"tck2connectome", a.tck.file, a.labels.file, connectome.file>> \o flags,
                       {a.tck.file, a.labels.file},
                       Wrote(site("tck2connectome"), {connectome.file}, "count"),
                       Goto(3, IF "fa_mif" \in DOMAIN ret THEN ret ELSE <<>>), ret)
           \/ /\ Top.k = 3
              /\ IF any /\ "fa_mif" \notin DOMAIN l
                 THEN Raise(Exc("UnboundLocalError"))  \* the metric maps were never assigned
                 ELSE IF passes = <<>>
                 THEN PyStep(<<>>, dirs, files, Pop, v)
                 ELSE PyStep(<<>>, dirs, files, Goto(4, [todo |-> passes]), ret)
           \/ /\ Top.k = 4
              /\ LET m == l.todo[1]
                 IN  Spawn(site("tcksample:" \o m[1]),
                           <<"tcksample", a.tck.file, m[2].file, tmp_metric.file, "-stat_tck",
                             "mean">>,
                           {a.tck.file, m[2].file},
                           Wrote(site("tcksample:" \o m[1]), {tmp_metric.file}, Prov(m[2].file)),
                           Goto(5, <<>>), ret)
           \/ /\ Top.k = 5
              /\ LET m == l.todo[1]
                 IN  Spawn(site("tck2connectome:" \o m[1]),
                           <<"tck2connectome", a.tck.file, a.labels.file, m[3].file,
                             "-scale_file", tmp_metric.file, "-stat_edge", "mean">> \o flags,
                           {a.tck.file, a.labels.file, tmp_metric.file},
                           Wrote(site("tck2connectome:" \o m[1]), {m[3].file},
                                 Prov(tmp_metric.file)),
                           Goto(6, <<>>), ret)
           \/ /\ Top.k = 6
              /\ IF tmp_metric.file \notin DOMAIN files
                 THEN Raise(Exc("FileNotFoundError"))
                 ELSE IF Len(l.todo) = 1
                 THEN PyStep(<<Event(site("remove:" \o l.todo[1][1]), "remove", 0)>>, dirs,
                             Remove(files, tmp_metric.file), Pop, v)
                 ELSE PyStep(<<Event(site("remove:" \o l.todo[1][1]), "remove", 0)>>, dirs,
                             Remove(files, tmp_metric.file),
                             Goto(4, [todo |-> Tail(l.todo)]), ret)

(***************************************************************************)
(* DWIxfm: the steps of the registration stage.                            *)
(***************************************************************************)
mask_dwi ==
    /\ In("mask_dwi")
    /\ LET a == Top.a
           l == Top.l
           self == a.self
           fp == file_parts(self.dwi_file, "")
           brain == NiiFile(PathJoin(fp.path, fp.filename \o "_brain" \o fp.ext))
           mask == NiiFile(PathJoin(fp.path, fp.filename \o "_brain_mask" \o fp.ext))
           head == NiiFile(PathJoin(fp.path, fp.filename \o "_head" \o fp.ext))
           dwi == ReconMRtrix(self.dwi_file.file, self.dwi_bval.file, self.dwi_bvec.file,
                              self.dwi_json.file, self.log)
           site(tag) == Site(a.ctx, "mask_dwi", tag)
           Convert(tag, src, dst, k) ==
               Spawn(site(tag), <<"mrconvert", src.file, dst.file>>, {src.file},
                     Wrote(site(tag), {dst.file}, Prov(src.file)), Goto(k, <<>>), ret)
           mifs == {l.mask_mif.file, l.brain_mif.file, l.head_mif.file}
       IN  \/ /\ Top.k = 1
              /\ PyStep(<<>>, dirs, files,
                        CallAt(2, [dwi |-> dwi], "nifti_to_mif",
                               [ctx |-> a.ctx, self |-> dwi, force |-> FALSE, gzip |-> FALSE]),
                        ret)
           \/ /\ Top.k = 2
              /\ PyStep(<<>>, dirs, files,
                        CallAt(3, [mif_file |-> ret], "create_mask",
                               [ctx |-> a.ctx, self |-> l.dwi, mif |-> ret,
                                frac_int |-> a.frac_int, gzip |-> FALSE, cleanup |-> TRUE]),
                        ret)
           \/ /\ Top.k = 3
              /\ Spawn(site("mrconvert:mask"), <<"mrconvert", ret.mask_mif.file, mask.file>>,
                       {ret.mask_mif.file},
                       Wrote(site("mrconvert:mask"), {mask.file}, Prov(ret.mask_mif.file)),
                       Goto(4, ret), ret)
           \/ /\ Top.k = 4
              /\ Convert("mrconvert:brain", l.brain_mif, brain, 5)
           \/ /\ Top.k = 5
              /\ Convert("mrconvert:head", l.head_mif, head, 6)
           \/ /\ Top.k = 6
              /\ IF ~(mifs \subseteq DOMAIN files) \/ Cardinality(mifs) < 3
                 THEN Raise(Exc("FileNotFoundError"))
                 ELSE PyStep(<<Event(site("remove"), "remove", 0)>>, dirs,
                             [q \in DOMAIN files \ mifs |-> files[q]], Pop,
                             [mask |-> mask, brain |-> brain, head |-> head])

compute_linear_xfm ==
    /\ In("compute_linear_xfm")
    /\ LET a == Top.a
           self == a.self
           fp == file_parts(self.dwi_file, "")
           stem == fp.filename \o ".lin_xfm_" \o ToString(a.dof) \o "_dof"
           xfm_mat == File(PathJoin(fp.path, stem \o ".mat"), "")
           xfm_out == NiiFile(PathJoin(fp.path, stem \o fp.ext))
           site == Site(a.ctx, "compute_linear_xfm", "flirt")
           \* without a brain file the FSLError object is built but not raised
           cmd == <<"flirt", "-in", AbsPath(cwd, self.template_brain.file), "-ref",
                    AbsPath(cwd, a.dwi_brain.file), "-omat", xfm_mat.file, "-out",
                    xfm_out.file>>
       IN  Spawn(site, cmd, {AbsPath(cwd, self.template_brain.file),
                             AbsPath(cwd, a.dwi_brain.file)},
                 Wrote(site, {xfm_mat.file, xfm_out.file}, "linear"), Pop,
                 [xfm_mat |-> xfm_mat, xfm_out |-> xfm_out])

\* variant: fnirt is not seeded with the affine matrix of the linear step
compute_non_linear_xfm_unseeded ==
    /\ In("compute_non_linear_xfm")
    /\ LET a == Top.a
           self == a.self
           fp == file_parts(self.dwi_file, "")
           nl_out == NiiFile(PathJoin(fp.path, fp.filename \o ".non-lin_xfm" \o fp.ext))
           nl_warp == NiiFile(PathJoin(fp.path,
                                       fp.filename \o ".non-lin_xfm.warp_field" \o fp.ext))
           nl_wpcf == NiiFile(PathJoin(fp.path,
                                       fp.filename \o ".non-lin_xfm.warp_field_coeff" \o fp.ext))
           site == Site(a.ctx, "compute_non_linear_xfm", "fnirt")
           cmd == <<"fnirt", "--in=" \o AbsPath(cwd, self.template.file),
                    "--ref=" \o AbsPath(cwd, a.dwi_head.file),
                    "--iout=" \o nl_out.file, "--fout=" \o nl_warp.file,
                    "--cout=" \o nl_wpcf.file>>
       IN  Spawn(site, cmd, {AbsPath(cwd, self.template.file), AbsPath(cwd, a.dwi_head.file)},
                 Wrote(site, {nl_out.file, nl_warp.file, nl_wpcf.file}, "non-linear"), Pop,
                 [nl_out |-> nl_out, nl_warp |-> nl_warp, nl_wpcf |-> nl_wpcf])

compute_non_linear_xfm ==
    /\ In("compute_non_linear_xfm")
    /\ LET a == Top.a
           self == a.self
           fp == file_parts(self.dwi_file, "")
           nl_out == NiiFile(PathJoin(fp.path, fp.filename \o ".non-lin_xfm" \o fp.ext))
           nl_warp == NiiFile(PathJoin(fp.path,
                                       fp.filename \o ".non-lin_xfm.warp_field" \o fp.ext))
           nl_wpcf == NiiFile(PathJoin(fp.path,
                                       fp.filename \o ".non-lin_xfm.warp_field_coeff" \o fp.ext))
           site == Site(a.ctx, "compute_non_linear_xfm", "fnirt")
           cmd == <<"fnirt", "--in=" \o AbsPath(cwd, self.template.file),
                    "--ref=" \o AbsPath(cwd, a.dwi_head.file), "--aff=" \o a.xfm_mat.file,
                    "--iout=" \o nl_out.file, "--fout=" \o nl_warp.file,
                    "--cout=" \o nl_wpcf.file>>
       IN  Spawn(site, cmd, {AbsPath(cwd, self.template.file), AbsPath(cwd, a.dwi_head.file),
                             a.xfm_mat.file},
                 Wrote(site, {nl_out.file, nl_warp.file, nl_wpcf.file}, "non-linear"), Pop,
                 [nl_out |-> nl_out, nl_warp |-> nl_warp, nl_wpcf |-> nl_wpcf])

\* variant: the labels are warped with the interpolation applywarp defaults to
applywarp_trilinear ==
    /\ In("applywarp")
    /\ LET a == Top.a
           self == a.self
           fp == file_parts(self.dwi_file, "")
           out == NiiFile(PathJoin(fp.path, fp.filename \o ".labels.non-linear" \o fp.ext))
           has_premat == a.premat # NoFile
           site == Site(a.ctx, "applywarp", "applywarp")
           cmd == <<"applywarp", "--in=" \o AbsPath(cwd, self.labels.file),
                    "--ref=" \o AbsPath(cwd, a.dwi_head.file),
                    "--warp=" \o AbsPath(cwd, a.non_lin_warp.file), "--out=" \o out.file>>
                  \o Opt(has_premat, <<"--premat=" \o AbsPath(cwd, a.premat.file)>>)
                  \o <<"--interp=trilinear">>
                  \o (IF a.rel THEN <<"--rel">> ELSE <<"--abs">>)
       IN  Spawn(site, cmd,
                 {AbsPath(cwd, self.labels.file), AbsPath(cwd, a.dwi_head.file),
                  AbsPath(cwd, a.non_lin_warp.file)}
                     \cup (IF has_premat THEN {AbsPath(cwd, a.premat.file)} ELSE {}),
                 Wrote(site, {out.file}, "labels"), Pop, out)

applywarp ==
    /\ In("applywarp")
    /\ LET a == Top.a
           self == a.self
           fp == file_parts(self.dwi_file, "")
           out == NiiFile(PathJoin(fp.path, fp.filename \o ".labels.non-linear" \o fp.ext))
           has_premat == a.premat # NoFile
           site == Site(a.ctx, "applywarp", "applywarp")
           cmd == <<"applywarp", "--in=" \o AbsPath(cwd, self.labels.file),
                    "--ref=" \o AbsPath(cwd, a.dwi_head.file),
                    "--warp=" \o AbsPath(cwd, a.non_lin_warp.file), "--out=" \o out.file>>
                  \o Opt(has_premat, <<"--premat=" \o AbsPath(cwd, a.premat.file)>>)
                  \o Opt(Truthy(a.interp), <<"--interp=" \o a.interp>>)
                  \o (IF a.rel THEN <<"--rel">> ELSE <<"--abs">>)
       IN  Spawn(site, cmd,
                 {AbsPath(cwd, self.labels.file), AbsPath(cwd, a.dwi_head.file),
                  AbsPath(cwd, a.non_lin_warp.file)}
                     \cup (IF has_premat THEN {AbsPath(cwd, a.premat.file)} ELSE {}),
                 Wrote(site, {out.file}, "labels"), Pop, out)

(***************************************************************************)
(* The pipeline run.                                                       *)
(***************************************************************************)
Next ==
    \/ main
    \/ create_structural_connectome
    \/ compute_xfm
    \/ mask_dwi
    \/ compute_linear_xfm
    \/ compute_non_linear_xfm
    \/ applywarp
    \/ nifti_to_mif
    \/ estimate_response
    \/ mr_upsample
    \/ create_mask
    \/ ss3t_csd
    \/ bias_field_correction
    \/ compute_dec_map
    \/ mr_tck_global
    \/ mr_tck_sift
    \/ compute_diff_metrics
    \/ structural_connectome

Spec == Init /\ [][Next]_vars

(***************************************************************************)
(* A direct call of ReconMRtrix.structural_connectome, as a program that   *)
(* uses the class makes it: on existing streamlines and labels, with any   *)
(* weighting flags, with or without the DWI image.                         *)
(***************************************************************************)
\* the installation and the weighting flags of the call
StageConfigs == {c \in CommandLines : Departures(c) = {}}
\* the dwi argument: left at its default None, or the image
StageDwi == {NoFile, Mif("/data/dwi.mif", FALSE)}
StageCall(c, dwi) ==
    Frame("structural_connectome",
          [ctx |-> "call",
           self |-> ReconMRtrix("/data/dwi.nii.gz", "/data/dwi.bval", "/data/dwi.bvec",
                                None, LogFile(c.log)),
           tck |-> File("/data/dwi.tck", ""), labels |-> NiiFile("/data/labels.nii.gz"),
           dwi |-> dwi, mask |-> NoFile, symmetric |-> FALSE, zero_diagonal |-> FALSE,
           fa |-> c.fa, md |-> c.md, ad |-> c.ad, rd |-> c.rd, force |-> FALSE,
           cleanup |-> TRUE])

InitStage ==
    /\ cfg \in StageConfigs
    /\ \E dwi \in StageDwi : stack = <<StageCall(cfg, dwi)>>
    /\ exc = NoExc
    /\ cwd = "/data"
    /\ ret = <<>>
    /\ dirs = {"/data"}
    /\ files = [q \in {"/data/dwi.tck", "/data/labels.nii.gz", "/data/dwi.mif"}
                   |-> Content("input", q)]
    /\ log = <<>>
    /\ trace = <<>>
    /\ last = NoCmd
    /\ call = NoCall
    /\ result = NoResult
    /\ work = <<>>
    /\ art = NoArt
    /\ environ = HostEnviron
    /\ handlers = NoHandlers

NextStage ==
    \/ compute_diff_metrics
    \/ structural_connectome

SpecStage == InitStage /\ [][NextStage]_vars

(***************************************************************************)
(* File objects on their own: a file object is constructed from a name,    *)
(* split by file_parts and a sibling path is derived from the parts, as    *)
(* the stages do it.                                                       *)
(***************************************************************************)
FileNames ==
    {"/w/a.nii.gz", "/w/a.b.nii.gz", "/w/a.mif.gz", "/w/a.nii", "/w/a.b.nii", "/w/a.mif",
     "/w/a.txt", "a.nii.gz", "/w/notes"}
Suffixes == {"_brain", "_brain_mask", "_head", ".labels.non-linear"}
Kinds == {"File", "NiiFile", "Mif", "Mif gzip"}
Construct(kind, src) ==
    CASE kind = "File" -> File(src, "")
      [] kind = "NiiFile" -> NiiFile(src)
      [] kind = "Mif" -> Mif(src, FALSE)
      [] kind = "Mif gzip" -> Mif(src, TRUE)
\* the extension mr_upsample reads off the name of an image, "" if it finds none
NamedExt(file) ==
    IF Contains(file, ".mif") THEN (IF Contains(file, ".gz") THEN ".mif.gz" ELSE ".mif")
    ELSE IF Contains(file, ".nii") THEN (IF Contains(file, ".gz") THEN ".nii.gz" ELSE ".nii")
    ELSE ""
NoParts == [path |-> "", filename |-> "", ext |-> ""]

InitFile ==
    /\ art = NoArt
    /\ environ = HostEnviron
    /\ handlers = NoHandlers
    /\ cfg = [none |-> TRUE]
    /\ stack = <<>>
    /\ exc = NoExc
    /\ cwd = "/w"
    /\ ret = <<>>
    /\ dirs = {"/w"}
    /\ files = <<>>
    /\ log = <<>>
    /\ trace = <<>>
    /\ last = NoCmd
    /\ call = NoCall
    /\ result = NoResult
    /\ work = <<>>

file_frame ==
    <<cfg, stack, exc, cwd, ret, dirs, files, log, trace, last, call, result, work, environ, handlers>>

\* File(src), NiiFile(src), Mif(src) or Mif(src, gzip=True)
NewArtifact ==
    /\ art = NoArt
    /\ environ = HostEnviron
    /\ handlers = NoHandlers
    /\ \E kind \in Kinds, src \in FileNames :
          art' = [obj |-> Construct(kind, src), kind |-> kind, src |-> src, split |-> FALSE,
                  given |-> "", parts |-> NoParts, suffix |-> "", sibling |-> "",
                  stripped |-> None]
    /\ UNCHANGED file_frame

\* obj.rm_ext()
Strip ==
    /\ art # NoArt
    /\ ~art.split
    /\ art.stripped = None
    /\ art' = [art EXCEPT !.stripped = rm_ext(art.obj, "")]
    /\ UNCHANGED file_frame

\* [path, filename, ext] = obj.file_parts() or obj.file_parts(ext=_ext)
Split ==
    /\ art # NoArt
    /\ ~art.split
    /\ \E ext \in {"", NamedExt(art.obj.file)} :
          art' = [art EXCEPT !.split = TRUE, !.given = ext,
                             !.parts = file_parts([art.obj EXCEPT !.file = AbsPath(cwd, @)],
                                                  ext)]
    /\ UNCHANGED file_frame

\* os.path.join(path, filename + suffix + ext)
Derive ==
    /\ art # NoArt
    /\ art.split
    /\ art.suffix = ""
    /\ \E sfx \in Suffixes :
          art' = [art EXCEPT !.suffix = sfx,
                             !.sibling = PathJoin(art.parts.path,
                                                  art.parts.filename \o sfx \o art.parts.ext)]
    /\ UNCHANGED file_frame

\* the object is dropped, another one is constructed next
Discard ==
    /\ art # NoArt
    /\ art.suffix # ""
    /\ art' = NoArt
    /\ UNCHANGED file_frame

NextFile ==
    \/ NewArtifact
    \/ Strip
    \/ Split
    \/ Derive
    \/ Discard

SpecFile == InitFile /\ [][NextFile]_vars

(***************************************************************************)
(* Properties.                                                             *)
(***************************************************************************)
Indices == 1..Len(trace)
\* the run has ended without an exception
Succeeded == stack = <<>> /\ exc = NoExc
\* the pipeline workspace: the directory create_structural_connectome made
Workspace ==
    LET I == {i \in Indices : trace[i].site = "csc:mk_tmp_dir"}
    IN  IF I = {} THEN None ELSE trace[CHOOSE i \in I : TRUE].path
\* this step spawns a process that exits with a non-zero status
FailingSpawn ==
    /\ Len(trace') = Len(trace) + 1
    /\ trace'[Len(trace')].op = "spawn"
    /\ trace'[Len(trace')].rc # 0

\* C1: when the process spawned by Command.run exits non-zero, an error record
\* naming the command and the status is handed to the log sink if one was given,
\* run raises RuntimeError with the command and the status and returns nothing
\* if raise_exc is true, and returns the status only if raise_exc is false; when
\* the process exits 0, run returns 0 and hands no error record to the sink.
C1_RunReportsExitStatus ==
    result.done =>
        LET o == result.o
            errors == {i \in 1..Len(log) : log[i].level = "error"}
        IN  /\ (o.ret # <<>> /\ o.ret[1] # 0) => ~call.raise_exc
            /\ (o.spawned /\ result.rc # 0) =>
                 /\ call.log # NoLog =>
                      \E i \in errors : /\ log[i].command = call.command
                                        /\ log[i].rc = result.rc
                 /\ call.raise_exc =>
                      o.ret = <<>> /\ o.exc = RuntimeError(call.command, result.rc)
                 /\ ~call.raise_exc => o.exc = NoExc /\ o.ret[1] = result.rc
            /\ (o.spawned /\ result.rc = 0) =>
                 o.exc = NoExc /\ o.ret[1] = 0 /\ errors = {}

\* a call with a log sink and the default raise_exc whose process exits non-zero
C1_Witness ==
    /\ result.done
    /\ result.o.spawned
    /\ result.rc # 0
    /\ call.log # NoLog
    /\ call.raise_exc
    /\ result.o.exc.type = "RuntimeError"

Exited0 == {trace[i].site : i \in {j \in Indices : trace[j].op = "spawn" /\ trace[j].rc = 0}}
Sites == {trace[i].site : i \in Indices}
Args(cmd) == {cmd[i] : i \in 1..Len(cmd)}
Metrics == {"fa", "md", "ad", "rd"}
Flag(m) == [fa |-> cfg.fa, md |-> cfg.md, ad |-> cfg.ad, rd |-> cfg.rd][m]
\* the clean-up flag main computes from the command line
CleanupEnabled == ~parse_no_cleanup(cfg.no_cleanup_given)
\* the files directly in the output directory
OutFiles ==
    {f \in DOMAIN files : /\ ~StartsWith(f, PathJoin(cfg.out_dir, "work.tmp") \o "/")
                          /\ DirName(f) = cfg.out_dir}

\* the orchestrator's step an event belongs to
Phase(e) ==
    IF e.site = "csc:mk_tmp_dir" THEN 1
    ELSE IF e.site = "csc:stage" THEN 2
    ELSE IF StartsWith(e.site, "xfm:") THEN 3
    ELSE IF StartsWith(e.site, "dwi:") THEN 4
    ELSE IF e.op = "copy" THEN 5
    ELSE 6

\* the step keeps the events of the trace and may add events at its end
Grows == Len(trace') >= Len(trace) /\ SubSeq(trace', 1, Len(trace)) = trace
\* the positions of the events the step adds
New == (Len(trace) + 1)..Len(trace')

\* C3: the steps of a run occur in the order workspace made, inputs staged,
\* registration, diffusion processing, copies, teardown, the workspace being
\* made, staged and torn down at most once (no event is followed by an event of
\* an earlier step); label upsampling of the diffusion stage reads the labels
\* written by applywarp; every copy in the output directory carries the
\* basename and the content of a workspace file; and a successful run has gone
\* through every step, has copied the connectome, the native labels, the head
\* volume and every weighted connectome produced, and has ended with the
\* teardown when clean-up is enabled.
C3_OrchestratorOrder ==
    /\ [][/\ Grows
          /\ \A j \in New :
                j > 1 => LET p == Phase(trace'[j - 1])
                             n == Phase(trace'[j])
                         IN  p <= n /\ (n \in {1, 2, 6} => p < n)]_vars
    /\ [](/\ (last.site # "" /\ StartsWith(last.site, "dwi:mr_upsample:")
                /\ EndsWith(last.site, ":labels")) =>
               \E q \in last.ins : last.prod[q] = "xfm:applywarp:applywarp"
          /\ LET out == OutFiles
             IN  /\ (out # {} /\ \A i \in Indices : trace[i].site # "main:rm_tmp_dir") =>
                      \A f \in out :
                         \E g \in DOMAIN files :
                             /\ files[g] = files[f]
                             /\ BaseName(g) = BaseName(f)
                             /\ Under(g, PathJoin(cfg.out_dir, "work.tmp"))
                 /\ Succeeded =>
                      /\ 1..5 \subseteq {Phase(trace[i]) : i \in Indices}
                      /\ {files[f].by : f \in out} =
                            {"dwi:structural_connectome:tck2connectome",
                             "xfm:applywarp:applywarp", "dwi:create_mask:mrconvert:head"}
                            \cup {"dwi:structural_connectome:tck2connectome:" \o m :
                                     m \in {n \in Metrics :
                                              ("dwi:structural_connectome:tck2connectome:"
                                                  \o n) \in Exited0}}
                      /\ Cardinality(out) = Cardinality({files[f].by : f \in out})
                      /\ CleanupEnabled <=> trace[Len(trace)].site = "main:rm_tmp_dir")

\* a successful run with two weighted connectomes that has torn the workspace down
C3_Witness ==
    /\ Succeeded
    /\ cfg.fa /\ cfg.md
    /\ Cardinality(OutFiles) = 5
    /\ trace[Len(trace)].site = "main:rm_tmp_dir"

\* the step of the diffusion stage a site belongs to; 8 is the step between bias
\* correction and tractography that renders the direction-encoded colour map
DiffStep(site) ==
    IF StartsWith(site, "dwi:nifti_to_mif:") THEN 1
    ELSE IF StartsWith(site, "dwi:estimate_response:") THEN 2
    ELSE IF StartsWith(site, "dwi:mr_upsample:") /\ EndsWith(site, ":dwi") THEN 3
    ELSE IF StartsWith(site, "dwi:mr_upsample:") THEN 4
    ELSE IF StartsWith(site, "dwi:create_mask:") THEN 5
    ELSE IF StartsWith(site, "dwi:ss3t_csd:") THEN 6
    ELSE IF StartsWith(site, "dwi:bias_field_correction:") THEN 7
    ELSE IF StartsWith(site, "dwi:compute_dec_map:") THEN 8
    ELSE IF StartsWith(site, "dwi:mr_tck_global:") \/ StartsWith(site, "dwi:mr_tck_sift:")
    THEN 9
    ELSE 10
DiffIndices == {i \in Indices : StartsWith(trace[i].site, "dwi:")}

IsDiff(e) == StartsWith(e.site, "dwi:")

\* C4: the commands of the diffusion stage are issued in the order conversion,
\* response estimation, DWI upsampling, label upsampling, mask construction,
\* deconvolution, bias correction, tractography, connectome assembly (no event
\* of the stage follows an event of a later step of the stage); every input
\* file of a command issued in the stage exists when it is issued and is an
\* input of the run or was written by a command that exited 0; and once a
\* command before tractography has failed no tractography and no connectome
\* command is issued.
C4_DiffusionOrder ==
    /\ [][/\ Grows
          /\ \A j \in New :
                IsDiff(trace'[j]) =>
                   LET n == DiffStep(trace'[j].site)
                   IN  /\ IF j > 1 /\ IsDiff(trace'[j - 1])
                          THEN DiffStep(trace'[j - 1].site) <= n
                          ELSE \A i \in 1..(j - 1) :
                                  IsDiff(trace'[i]) => DiffStep(trace'[i].site) <= n
                       /\ n > 8 =>
                             \A i \in 1..(j - 1) :
                                ~(/\ trace'[i].op = "spawn"
                                  /\ trace'[i].rc # 0
                                  /\ IsDiff(trace'[i])
                                  /\ DiffStep(trace'[i].site) <= 8)]_vars
    /\ []((last.site # "" /\ StartsWith(last.site, "dwi:")) =>
             LET exited0 == Exited0
             IN  \A q \in last.ins :
                    /\ last.prod[q] # None
                    /\ last.prod[q] = "input" \/ last.prod[q] \in exited0)

\* the stage has gone through tractography with filtering to the connectome command
C4_Witness ==
    /\ last.site = "dwi:structural_connectome:tck2connectome"
    /\ last.rc = 0
    /\ "dwi:mr_tck_sift:tcksift" \in Exited0
    /\ {DiffStep(trace[i].site) : i \in DiffIndices} = 1..10

\* the state of the registration stage a site leads to
RegStep(site) ==
    IF StartsWith(site, "xfm:compute_linear_xfm:") THEN 2
    ELSE IF StartsWith(site, "xfm:compute_non_linear_xfm:") THEN 3
    ELSE IF StartsWith(site, "xfm:applywarp:") THEN 4
    ELSE IF site \in {"xfm:mk_tmp_dir", "xfm:stage"} THEN 0
    ELSE 1
flirt == "xfm:compute_linear_xfm:flirt"
fnirt == "xfm:compute_non_linear_xfm:fnirt"
\* the sites whose files are the artifacts of the registration stage
RegArtifacts ==
    {"xfm:mask_dwi:mrconvert:mask", "xfm:mask_dwi:mrconvert:brain",
     "xfm:mask_dwi:mrconvert:head", flirt, fnirt, "xfm:applywarp:applywarp"}

IsReg(e) == StartsWith(e.site, "xfm:")
\* event b of the registration stage may follow event a of the stage
RegNext(a, b) ==
    /\ RegStep(a.site) <= RegStep(b.site)
    /\ RegStep(b.site) >= 2 => RegStep(a.site) < RegStep(b.site)
FailedReg(e) == e.op = "spawn" /\ e.rc # 0 /\ IsReg(e)

\* C5: the registration stage runs brain extraction, flirt, fnirt, applywarp in
\* this order, each of the three registration commands at most once; flirt
\* registers the atlas brain to the extracted native brain, fnirt is given the
\* matrix flirt wrote and the native head, applywarp is given the warp fnirt
\* wrote; a failing command of the stage is the last step of the run; and until
\* a teardown the files of every registration command that exited 0 exist.
C5_RegistrationOrder ==
    /\ [][/\ Grows
          /\ \A j \in New :
                /\ IsReg(trace'[j]) =>
                      IF j > 1 /\ IsReg(trace'[j - 1])
                      THEN RegNext(trace'[j - 1], trace'[j])
                      ELSE \A i \in 1..(j - 1) :
                              IsReg(trace'[i]) => RegNext(trace'[i], trace'[j])
                /\ j > 1 => ~FailedReg(trace'[j - 1])]_vars
    /\ [](/\ (trace # <<>> /\ FailedReg(trace[Len(trace)])) =>
                stack = <<>> /\ exc.type = "RuntimeError"
          /\ last.site = flirt =>
               /\ \E q \in last.ins : last.prod[q] = "xfm:mask_dwi:mrconvert:brain"
               /\ cfg.template_brain \in last.ins
          /\ last.site = fnirt =>
               /\ \E q \in last.ins :
                     last.prod[q] = flirt /\ ("--aff=" \o q) \in Args(last.cmd)
               /\ \E q \in last.ins : /\ last.prod[q] = "xfm:mask_dwi:mrconvert:head"
                                      /\ ("--ref=" \o q) \in Args(last.cmd)
               /\ ("--in=" \o cfg.template) \in Args(last.cmd)
          /\ last.site = "xfm:applywarp:applywarp" =>
               /\ \E q \in last.ins :
                     last.prod[q] = fnirt /\ ("--warp=" \o q) \in Args(last.cmd)
               /\ ("--in=" \o cfg.labels) \in Args(last.cmd)
          /\ (\A i \in Indices : trace[i].site # "main:rm_tmp_dir") =>
               \A i \in Indices :
                  (trace[i].op = "spawn" /\ trace[i].rc = 0
                     /\ trace[i].site \in RegArtifacts) =>
                     \E f \in DOMAIN files : files[f].by = trace[i].site)

\* fnirt has failed after flirt: the stage is aborted and the matrix is still there
C5_Witness ==
    /\ last.site = fnirt
    /\ last.rc # 0
    /\ stack = <<>>
    /\ "xfm:applywarp:applywarp" \notin Sites
    /\ \E f \in DOMAIN files : files[f].by = flirt

\* the error records handed to the log sink
ErrorRecords == {i \in 1..Len(log) : log[i].level = "error"}
Sampling(m) == "dwi:structural_connectome:tcksample:" \o m
Weighting(m) == "dwi:structural_connectome:tck2connectome:" \o m
Unweighted == "dwi:structural_connectome:tck2connectome"
\* the metrics in the order of their passes
MetricOrder == [fa |-> 1, md |-> 2, ad |-> 3, rd |-> 4]

\* C6: when the sampling or the connectome command of the weighting pass of a
\* metric has failed and the run has ended, the failure is in the log, the
\* unweighted connectome is in the output directory and the sampling command
\* of every enabled metric after it has been issued.
C6_PassFailureTolerated ==
    \A i \in Indices : \A m \in Metrics :
        (/\ stack = <<>>
         /\ trace[i].site \in {Sampling(m), Weighting(m)}
         /\ trace[i].op = "spawn"
         /\ trace[i].rc # 0) =>
            /\ ErrorRecords # {}
            /\ \E f \in OutFiles : files[f].by = Unweighted
            /\ \A n \in Metrics :
                  (Flag(n) /\ MetricOrder[n] > MetricOrder[m]) => Sampling(n) \in Sites

\* this step issues the sampling (the connectome) command of the pass of m
SamplingStep(m) == Len(trace') = Len(trace) + 1 /\ trace'[Len(trace')].site = Sampling(m)
WeightingStep(m) == Len(trace') = Len(trace) + 1 /\ trace'[Len(trace')].site = Weighting(m)

\* C7: when the sampling command of a pass is issued the scratch file does not
\* exist and the step before was the unweighted connectome command or the
\* removal of the scratch file by the pass before; the connectome command of a
\* pass directly follows the sampling command of that pass and reads the
\* scratch file this command wrote.
C7_PassesOneAtATime ==
    [][\A m \in Metrics :
          /\ SamplingStep(m) =>
                /\ last'.outs \cap DOMAIN files = {}
                /\ \/ trace[Len(trace)].site = Unweighted
                   \/ /\ trace[Len(trace)].op = "remove"
                      /\ trace[Len(trace) - 1].op = "spawn"
                      /\ trace[Len(trace) - 1].site \in {Weighting(n) : n \in Metrics \ {m}}
          /\ WeightingStep(m) =>
                /\ trace[Len(trace)] = Event(Sampling(m), "spawn", 0)
                /\ \E q \in last'.ins : /\ last'.prod[q] = Sampling(m)
                                        /\ q \in last.outs]_vars

\* the sampling command of the second of two passes has run
C7_Witness ==
    /\ cfg.fa /\ cfg.md
    /\ last.site = Sampling("md")
    /\ last.rc = 0
    /\ Weighting("fa") \in Exited0

\* structural_connectome has returned to create_structural_connectome
Returned == At("create_structural_connectome", 15)
\* the files written by the commands whose site starts with the prefix p
WrittenBy(p) == {f \in DOMAIN files : StartsWith(files[f].by, p)}

\* C8: when structural_connectome returns, the unweighted connectome exists,
\* the weighted connectome of a metric exists exactly if its flag is set and
\* then holds the means sampled from the map of that metric, there are no
\* other connectomes, and the scratch file does not exist.
C8_WeightedPerFlag ==
    Returned =>
        /\ ret.connectome.file \in DOMAIN files
        /\ files[ret.connectome.file].by = Unweighted
        /\ \A m \in Metrics :
              LET f == ret[m \o "_connectome"].file
              IN  /\ Flag(m) <=> f \in DOMAIN files
                  /\ Flag(m) => files[f] = Content(Weighting(m), m)
        /\ Cardinality(WrittenBy(Unweighted)) = 1 + Cardinality({m \in Metrics : Flag(m)})
        /\ WrittenBy("dwi:structural_connectome:tcksample") = {}

\* structural_connectome has returned with all four flags set
C8_Witness ==
    /\ Returned
    /\ \A m \in Metrics : Flag(m)
    /\ Cardinality(WrittenBy(Unweighted)) = 5

\* C9: after the run has ended the workspace still exists if --no-cleanup was
\* given; it is torn down only at the end of a successful run without
\* --no-cleanup.
C9_RetentionHonoured ==
    (stack = <<>> /\ Workspace # None) =>
        /\ cfg.no_cleanup_given => Workspace \in dirs
        /\ Workspace \notin dirs => Succeeded /\ ~cfg.no_cleanup_given

\* the workspaces made under the working directory: the pipeline workspace and
\* the workspace of the registration stage
Workspaces ==
    {trace[i].path :
        i \in {j \in Indices : trace[j].site \in {"csc:mk_tmp_dir", "xfm:mk_tmp_dir"}}}
\* this step removes the workspace w
TearsDown(w) == w \in dirs /\ w \notin dirs'

\* C10: the pipeline workspace, and the workspace of the registration stage
\* beside it, is removed only by the last step of main, after the copies and
\* with no exception; the trace holds at most one teardown by main and no
\* removal by another function of a directory holding a workspace.
C10_TeardownOnlyByMain ==
    [][/\ \A w \in Workspaces :
             TearsDown(w) =>
                /\ At("main", 9)
                /\ Top.l.cleanup
                /\ exc = NoExc /\ exc' = NoExc
                /\ "main:copy:head" \in Sites
                /\ trace'[Len(trace')].site = "main:rm_tmp_dir"
                /\ stack' = <<>>
       /\ Cardinality({i \in 1..Len(trace') : trace'[i].site = "main:rm_tmp_dir"}) <= 1
       /\ \A i \in 1..Len(trace') : \A w \in Workspaces :
             (/\ trace'[i].op = "rmdir"
              /\ trace'[i].path # None
              /\ Under(w, trace'[i].path)) => trace'[i].site = "main:rm_tmp_dir"]_vars

\* main has torn the workspace down after the stages removed their own scratch
\* directories
C10_Witness ==
    /\ Succeeded
    /\ Workspace # None /\ Workspace \notin dirs
    /\ "dwi:create_mask:rm_tmp_dir" \in Sites
    /\ trace[Len(trace)].site = "main:rm_tmp_dir"

(***************************************************************************)
(* Workspaces of runs that share a parent directory.                       *)
(***************************************************************************)
\* the runs other than p that hold a workspace under the parent of p's
Peers(p) ==
    {q \in Runs \ {p} : work[q] # NoWork /\ work[q].parent_dir = work[p].parent_dir}

\* C11: any two workspaces allocated under the same parent directory have
\* different roots.
C11_RootsDistinct ==
    \A p \in Runs : work[p] # NoWork => \A q \in Peers(p) : work[q].src # work[p].src

\* C12: the end-of-run teardown of a run (rmdir with rm_parent, as main calls
\* it) leaves the workspace of every other run under the same parent, and
\* every file in it, as it was.
C12_TeardownSparesPeers ==
    [][(call'.op = "rmdir" /\ call'.rm_parent) =>
          \A q \in Peers(call'.run) :
             work[q].src # work[call'.run].src =>
                /\ work[q].src \in dirs => work[q].src \in dirs'
                /\ \A f \in DOMAIN files :
                      Under(f, work[q].src) => f \in DOMAIN files' /\ files'[f] = files[f]]_vars

(***************************************************************************)
(* The workspace of one pipeline run.                                      *)
(***************************************************************************)
\* C13: the orchestrator makes one workspace root before any stage runs; every
\* directory a stage makes afterwards, every staged input and every file
\* written by a command lies under that root (the inputs named on the command
\* line and the copies in the output directory are not workspace files).
C13_SingleRoot ==
    /\ trace # <<>> => trace[1].site = "csc:mk_tmp_dir"
    /\ Workspace # None =>
         /\ \A i \in Indices : trace[i].op = "mkdir" => Under(trace[i].path, Workspace)
         /\ \A f \in DOMAIN files \ (InputFiles(cfg) \cup OutFiles) : Under(f, Workspace)

(***************************************************************************)
(* The workspace operations, one call at a time.                           *)
(***************************************************************************)
\* the workspace of the run whose call the step makes
Callee == work[call'.run]
\* nothing is at or below the path p after the step
GoneAfter(p) == p \notin dirs' /\ \A f \in DOMAIN files' : ~Under(f, p)
\* the step changes no directory and no file outside p
KeptOutside(p) ==
    /\ \A d \in dirs : ~Under(d, p) => d \in dirs'
    /\ \A f \in DOMAIN files : ~Under(f, p) => f \in DOMAIN files' /\ files'[f] = files[f]
    /\ dirs' \subseteq dirs
    /\ DOMAIN files' \subseteq DOMAIN files

\* C14: rmdir raises no error and leaves the workspace absent, for both values
\* of rm_parent, whether the workspace exists or not when it is called; a
\* second call right after the first changes nothing in the filesystem.
C14_TeardownIdempotent ==
    [][call'.op = "rmdir" =>
          /\ exc' = NoExc
          /\ GoneAfter(Callee.src)
          /\ (call.op = "rmdir" /\ call.run = call'.run /\ call.rm_parent = call'.rm_parent)
                => dirs' = dirs /\ files' = files]_vars

\* rmdir has returned from a call on a workspace that did not exist
C14_Witness ==
    /\ call.op = "rmdir"
    /\ ~call.existed
    /\ exc = NoExc
    /\ ~Exists(work[call.run].src)
    /\ \E p \in Runs \ {call.run} : work[p].src \in dirs

\* C15: mkdir on an absent workspace makes the directory and its missing
\* ancestors and nothing else; mkdir on a workspace that exists raises no
\* error and changes no directory and no file.
C15_MaterializeIdempotent ==
    [][call'.op = "mkdir" =>
          /\ exc' = NoExc
          /\ files' = files
          /\ IF Callee.src \in dirs
             THEN dirs' = dirs
             ELSE dirs' = dirs \cup SelfAndAncestors(Callee.src)]_vars

\* mkdir has returned from a call on a workspace that existed and holds a file
C15_Witness ==
    /\ call.op = "mkdir"
    /\ call.existed
    /\ exc = NoExc
    /\ work[call.run].src \in dirs
    /\ \E f \in DOMAIN files : Under(f, work[call.run].src)

\* C16: rmdir without rm_parent removes the workspace with everything below
\* it and nothing else; rmdir with rm_parent leaves the workspace and its
\* parent directory absent and removes nothing outside the parent.
C16_TeardownFrame ==
    [][call'.op = "rmdir" =>
          IF call'.rm_parent
          THEN /\ GoneAfter(Callee.src)
               /\ GoneAfter(Callee.parent_dir)
               /\ KeptOutside(Callee.parent_dir)
          ELSE /\ GoneAfter(Callee.src)
               /\ KeptOutside(Callee.src)
               /\ Callee.parent_dir \in dirs => Callee.parent_dir \in dirs']_vars

\* rmdir with rm_parent has removed an existing workspace with its parent; the
\* directory above the parent and the files outside it are still there
C16_Witness ==
    /\ call.op = "rmdir"
    /\ call.rm_parent
    /\ call.existed
    /\ work[call.run].parent_dir = "/out/scratch/job"
    /\ ~Exists(work[call.run].parent_dir)
    /\ "/out/scratch" \in dirs
    /\ "/out/scratch/notes.txt" \in DOMAIN files

(***************************************************************************)
(* Staging of the inputs.                                                  *)
(***************************************************************************)
\* the external files create_structural_connectome stages
Staged == {cfg.dwi, cfg.bval, cfg.bvec} \cup (IF cfg.json # None THEN {cfg.json} ELSE {})
\* the step is the staging step of create_structural_connectome
Stages ==
    /\ Len(trace') = Len(trace) + 1
    /\ trace'[Len(trace')].site = "csc:stage"

Required == {"flirt", "ss3t_csd_beta1"}

\* C18: in a run started with flirt or ss3t_csd_beta1 not resolvable, no
\* workspace is made, no command is invoked and the run ends with an error.
C18_MissingDependencyStops ==
    ~(Required \subseteq cfg.on_path) =>
        /\ \A i \in Indices : trace[i].op \notin {"mkdir", "spawn"}
        /\ last = NoCmd
        /\ \A d \in dirs : ~Under(d, PathJoin(cfg.out_dir, "work.tmp"))
        /\ stack = <<>> => exc # NoExc


\* the executables mr_upsample chooses between, the preferred one first
Upsamplers == <<"mrresize", "mrgrid">>
\* the name s up to its first dot
Stem(s) ==
    LET dots == {i \in 1..Len(s) : SubSeq(s, i, i) = "."}
    IN  IF dots = {} THEN s
        ELSE SubSeq(s, 1, (CHOOSE i \in dots : \A j \in dots : i <= j) - 1)
\* o is an upsampled image of f: beside f, named after it, in MRtrix format
UpsampledOf(o, f) ==
    /\ DirName(o) = DirName(f)
    /\ StartsWith(BaseName(o), Stem(BaseName(f)))
    /\ EndsWith(o, "_upsampled.mif") \/ EndsWith(o, "_upsampled.mif.gz")
\* where each executable's command line names the output
OutputArg == [mrresize |-> 5, mrgrid |-> 4]
\* the step spawns the executable exe, and nothing else
Spawns(exe) ==
    /\ Len(trace') = Len(trace) + 1
    /\ Grows
    /\ trace'[Len(trace')].op = "spawn"
    /\ last'.cmd[1] = exe

\* C19: a call of mr_upsample is over in one command: mrresize when it is
\* resolvable, mrgrid exactly when mrresize is not and mrgrid is, both with
\* the same declared output; with neither a DependencyError leaves the call
\* and nothing is run; a non-zero exit of mrresize ends the call in failure
\* with no second command.
C19_UpsampleFallback ==
    [][In("mr_upsample") =>
        LET mif == Top.a.mif
            resize == Upsamplers[1] \in cfg.on_path
            grid == Upsamplers[2] \in cfg.on_path
        IN  /\ Len(stack') < Len(stack)
            /\ resize => Spawns(Upsamplers[1])
            /\ (~resize /\ grid) <=> Spawns(Upsamplers[2])
            /\ (~resize /\ ~grid) =>
                  /\ trace' = trace
                  /\ last' = last
                  /\ stack' = <<>>
                  /\ exc' = Exc("DependencyError")
            /\ Len(trace') > Len(trace) =>
                  /\ last'.outs = {last'.cmd[OutputArg[last'.cmd[1]]]}
                  /\ \A o \in last'.outs : UpsampledOf(o, mif.file)
                  /\ last'.rc = 0 =>
                        /\ stack' = Pop
                        /\ exc' = NoExc
                        /\ ret'.file \in last'.outs
                        /\ last'.outs \subseteq DOMAIN files'
                  /\ last'.rc # 0 =>
                        /\ stack' = <<>>
                        /\ exc' # NoExc
                        /\ exc' # Exc("DependencyError")
                        /\ files' = files]_vars

\* mrgrid has upsampled an image on an installation without mrresize
C19_Witness ==
    /\ Upsamplers[1] \notin cfg.on_path
    /\ last # NoCmd
    /\ last.cmd[1] = Upsamplers[2]
    /\ last.rc = 0
    /\ stack # <<>>
    /\ \E q \in last.outs : q \in DOMAIN files /\ EndsWith(q, "_upsampled.mif")


Checked == last # NoCmd /\ last.site = "Command.check_dependency"

\* C20: check_dependency returns True exactly when the first token of the
\* command is resolvable and raises DependencyError otherwise; it never
\* returns False and it never executes the command.
C20_CheckDependency ==
    /\ Checked =>
          /\ last.found <=> ret = <<TRUE>>
          /\ ~last.found <=> exc = Exc("DependencyError")
          /\ last.found => exc = NoExc
          /\ ~last.found => ret = <<>>
          /\ ret # <<FALSE>>
          /\ ~last.spawned
    /\ (Checked /\ result = NoResult) => (log = <<>> /\ files = <<>>)

\* a check of a command whose executable is missing has raised
C20_Witness ==
    /\ Checked
    /\ ~last.found
    /\ exc = Exc("DependencyError")
    /\ result = NoResult


\* the record that announces the command of the call, at the severity level
Announced(level) ==
    /\ result.o.records # <<>>
    /\ result.o.records[1] = [level |-> level, text |-> "Running", command |-> call.command]
    /\ SubSeq(log, 1, 1) = <<result.o.records[1]>>

\* C21 as stated: every call of Command.run that spawns its process has handed
\* the log sink a record of the command at informational severity first.
C21_EveryRunRecorded ==
    (result.done /\ result.o.spawned) => Announced("info")

\* C21 as the code has it: a call with a log sink hands the sink the record of
\* the command, with its full argument list, as its first record, whether the
\* process is then spawned or not; the record is at informational severity
\* unless debug is set, and then at debug severity; a call without a log sink
\* records nothing and spawns its process all the same.
C21_RecordedWithSink ==
    result.done =>
        /\ call.log # NoLog => Announced(IF call.debug THEN "debug" ELSE "info")
        /\ call.log = NoLog => (result.o.records = <<>> /\ log = <<>> /\ result.o.spawned)
        /\ \A i \in 2..Len(result.o.records) : result.o.records[i].text # "Running"

\* a process was spawned by a call with a log sink and without debug
C21_Witness ==
    /\ result.done
    /\ result.o.spawned
    /\ call.log # NoLog
    /\ ~call.debug
    /\ Len(call.command) > 1
    /\ log # <<>>
    /\ log[1].level = "info"


\* the run has ended with the error of a process that exited non-zero
EndedByCommand == stack = <<>> /\ exc.type = "RuntimeError"

\* C22 as stated: the error that ends the run carries the full failing
\* command line and the standard error captured from the process.
C22_ErrorCarriesStderr ==
    EndedByCommand =>
        /\ exc.command = last.cmd
        /\ "stderr" \in DOMAIN exc

\* C22 as the code has it: the error that ends the run carries the full
\* failing command line and the exit status of the process, and nothing
\* else; the same two are the last record of the log, at error severity.
C22_ErrorNamesCommand ==
    EndedByCommand =>
        /\ exc.command = last.cmd
        /\ exc.rc = last.rc
        /\ exc.rc # 0
        /\ DOMAIN exc = {"type", "command", "rc"}
        /\ log # <<>>
        /\ log[Len(log)] = [level |-> "error", text |-> "Failed", command |-> last.cmd,
                            rc |-> last.rc]

\* the registration has failed in flirt, a command of several arguments
C22_Witness ==
    /\ EndedByCommand
    /\ last.cmd[1] = "flirt"
    /\ Len(last.cmd) > 3
    /\ exc.command = last.cmd


\* the events of the trace that are spawned processes
Spawned == {i \in Indices : trace[i].op = "spawn"}

\* C23: a step that spawns a process spawns one whose call has spawned none
\* before and whose command line is not the one issued just before, and it is
\* taken only while every process spawned so far has exited 0; a run that has
\* ended with an error spawns nothing more.
C23_NoRetry ==
    [][(Len(trace') > Len(trace) /\ trace'[Len(trace')].op = "spawn") =>
          /\ Grows
          /\ Len(trace') = Len(trace) + 1
          /\ \A i \in Spawned : trace[i].site # trace'[Len(trace')].site
          /\ \A i \in Spawned : trace[i].rc = 0
          /\ last = NoCmd \/ last'.cmd # last.cmd
          /\ exc = NoExc]_vars

\* a run that spawned several processes has ended with the failure of the last
C23_Witness ==
    /\ EndedByCommand
    /\ Cardinality(Spawned) > 3
    /\ trace[Len(trace)].op = "spawn"
    /\ trace[Len(trace)].rc # 0
    /\ \A i \in Spawned \ {Len(trace)} : trace[i].rc = 0


\* the interpolation an MRtrix command line asks for, None if it names none
InterpOf(cmd) ==
    LET I == {i \in 1..(Len(cmd) - 1) : cmd[i] = "-interp"}
    IN  IF I = {} THEN None ELSE cmd[(CHOOSE i \in I : TRUE) + 1]
\* the most recent command warps the atlas labels
WarpsLabels == last # NoCmd /\ last.cmd[1] = "applywarp"
\* the most recent command upsamples an image
Upsamples == last # NoCmd /\ last.cmd[1] \in {Upsamplers[1], Upsamplers[2]}
\* the image it upsamples is the label volume the warp produced
OfLabels == \E q \in last.ins : last.prod[q] = "xfm:applywarp:applywarp"

\* C24: the warp of the atlas labels asks for nearest-neighbour interpolation
\* and for no other, the upsampling of the warped labels asks for nearest,
\* and the upsampling of the DWI asks for an interpolation that is not nearest.
C24_LabelInterpolation ==
    /\ WarpsLabels =>
          {a \in Args(last.cmd) : StartsWith(a, "--interp")} = {"--interp=nn"}
    /\ (Upsamples /\ OfLabels) => InterpOf(last.cmd) = "nearest"
    /\ (Upsamples /\ ~OfLabels) => InterpOf(last.cmd) \in {"cubic", "linear", "sinc"}

\* the labels were warped, and later upsampled by mrgrid
C24_Witness ==
    /\ Upsamples
    /\ OfLabels
    /\ last.cmd[1] = Upsamplers[2]
    /\ last.rc = 0
    /\ "xfm:applywarp:applywarp" \in Exited0


\* the argument that follows the option opt on the command line cmd, None
\* if the command line does not carry the option
ValueOf(cmd, opt) ==
    LET I == {i \in 1..(Len(cmd) - 1) : cmd[i] = opt}
    IN  IF I = {} THEN None ELSE cmd[(CHOOSE i \in I : TRUE) + 1]
Generation == "dwi:mr_tck_global:tckgen"
Filtering == "dwi:mr_tck_sift:tcksift"
\* the most recent command is the one named exe
Issued(exe) == last # NoCmd /\ last.cmd[1] = exe /\ exe \in cfg.on_path

\* C25: tcksift is issued only with filter_tracts set, after tckgen has
\* exited 0 and on the file tckgen wrote, and it carries -term_number, with
\* the configured number, exactly when a term is configured; every
\* tck2connectome and tcksample reads the file tcksift wrote when
\* filter_tracts is set, and then tcksift has exited 0, and the file tckgen
\* wrote otherwise, and then tcksift was never issued.
C25_FilteringOnDemand ==
    /\ Issued("tcksift") =>
          /\ cfg.filter_tracts
          /\ Generation \in Exited0
          /\ last.prod[last.cmd[2]] = Generation
          /\ ValueOf(last.cmd, "-term_number")
                = (IF cfg.term # 0 THEN ToString(cfg.term) ELSE None)
          /\ Len(SelectSeq(last.cmd, LAMBDA x : x = "-term_number")) <= 1
    /\ (Issued("tck2connectome") \/ Issued("tcksample")) =>
          /\ last.prod[last.cmd[2]] = (IF cfg.filter_tracts THEN Filtering ELSE Generation)
          /\ cfg.filter_tracts <=> Filtering \in Exited0
          /\ cfg.filter_tracts \/ Filtering \notin Sites

\* the connectome was assembled from streamlines filtered down to a
\* configured number
C25_Witness ==
    /\ Issued("tck2connectome")
    /\ last.rc = 0
    /\ cfg.filter_tracts
    /\ cfg.term # 0
    /\ last.prod[last.cmd[2]] = Filtering


\* the call is at its check of the DWI image, a weighting flag is set and no
\* image was passed
WeightingWithoutDwi ==
    /\ At("structural_connectome", 1)
    /\ Top.a.fa \/ Top.a.md \/ Top.a.ad \/ Top.a.rd
    /\ Top.a.dwi = NoFile

\* C26: a call of structural_connectome with a weighting flag and without a
\* DWI image ends at the check with a precondition error: nothing is spawned
\* and no file is written.
C26_WeightingNeedsDwi ==
    [][WeightingWithoutDwi =>
          /\ stack' = <<>>
          /\ exc' # NoExc
          /\ trace' = trace
          /\ files' = files]_vars


\* the most recent command is the conversion of the DWI with its gradient tables
Converts == Issued("mrconvert") /\ "-fslgrad" \in Args(last.cmd)

\* C27: a run without a sidecar ends, if it ends with an error, with the
\* failure of an external command; the conversion carries -json_import exactly
\* when a sidecar was supplied, and then names the copy of the sidecar in the
\* workspace.
C27_SidecarOptional ==
    /\ (cfg.json = None /\ stack = <<>> /\ exc # NoExc) => exc.type = "RuntimeError"
    /\ Converts =>
          /\ "-json_import" \in Args(last.cmd) <=> cfg.json # None
          /\ cfg.json # None =>
                /\ BaseName(ValueOf(last.cmd, "-json_import")) = BaseName(cfg.json)
                /\ Under(ValueOf(last.cmd, "-json_import"), PathJoin(cfg.out_dir, "work.tmp"))


Compressed == {".nii.gz", ".mif.gz"}
\* a sibling path has been derived from the file object
Derived == art # NoArt /\ art.suffix # ""

\* C28: the extension resolved for a File or NiiFile whose name ends in
\* .nii.gz or .mif.gz is that whole ending; and a sibling path derived from
\* a file object whose extension is .nii.gz or .mif.gz ends in the suffix
\* followed by that whole extension, never in the suffix followed by .gz,
\* whether file_parts is called without an extension or with the file's own.
C28_CompressedExtensionKept ==
    /\ (art # NoArt /\ art.kind \in {"File", "NiiFile"}) =>
          \A x \in Compressed : EndsWith(art.obj.file, x) => art.obj.ext = x
    /\ (Derived /\ art.given = "" /\ art.obj.ext \in Compressed) =>
          /\ EndsWith(art.sibling, art.suffix \o art.obj.ext)
          /\ ~EndsWith(art.sibling, art.suffix \o ".gz")
    /\ (Derived /\ art.kind \in {"File", "NiiFile"}) =>
          \A x \in Compressed :
              (EndsWith(art.obj.file, x) /\ art.given \in {"", x}) =>
                  /\ EndsWith(art.sibling, art.suffix \o x)
                  /\ DirName(art.sibling) = DirName(AbsPath(cwd, art.obj.file))

\* a_brain.nii.gz has been derived from File("a.nii.gz")
C28_Witness ==
    /\ Derived
    /\ art.kind = "File"
    /\ art.src = "/w/a.nii.gz"
    /\ art.given = ""
    /\ art.sibling = "/w/a_brain.nii.gz"

\* C29: the parts file_parts returns, put back together, are the absolute
\* path of the file.
C29_PartsReassemble ==
    (art # NoArt /\ art.split) =>
        PathJoin(art.parts.path, art.parts.filename \o art.parts.ext)
            = AbsPath(cwd, art.obj.file)


\* the scratch sample file of the weighting passes
Scratch(q) == EndsWith(q, "metric.vertex.mean.csv")
\* the command line cmd names the path q, as an argument or as the value of one
Names(cmd, q) == \E j \in 1..Len(cmd) : cmd[j] = q \/ EndsWith(cmd[j], "=" \o q)
\* this step spawns a process
Spawning == Len(trace') > Len(trace) /\ trace'[Len(trace')].op = "spawn"

\* C30: every path a spawned command declares as its output, the scratch
\* sample file of the weighting passes excepted, is the path of no existing
\* file, staged input or output of an earlier command, and is named on no
\* command line issued before.
C30_OutputsDistinct ==
    [][Spawning =>
          \A q \in last'.outs :
              ~Scratch(q) =>
                  /\ q \notin DOMAIN files
                  /\ \A i \in 1..Len(log) : ~Names(log[i].command, q)]_vars

\* a run with filtering and all four weighting passes has ended without error
C30_Witness ==
    /\ Succeeded
    /\ cfg.filter_tracts
    /\ cfg.fa /\ cfg.md /\ cfg.ad /\ cfg.rd
    /\ Filtering \in Exited0
    /\ "dwi:structural_connectome:tck2connectome:rd" \in Exited0


\* the name a Mif is built from is that of a NIFTI or MIF image
Convertible == {".nii", ".nii.gz", ".mif", ".mif.gz"}
Converted ==
    /\ art # NoArt
    /\ art.kind \in {"Mif", "Mif gzip"}
    /\ \E x \in Convertible : EndsWith(art.src, x)

\* C31: a Mif built from a name ending in .nii, .nii.gz, .mif or .mif.gz has
\* a path ending in .mif.gz when gzip is requested and in .mif otherwise, its
\* extension field is that new extension, and the path of every file object
\* ends with the extension the object records.
C31_ConvertedExtension ==
    /\ Converted =>
          LET x == IF art.kind = "Mif gzip" THEN ".mif.gz" ELSE ".mif"
          IN  /\ EndsWith(art.obj.file, x)
              /\ art.kind = "Mif" => ~EndsWith(art.obj.file, ".gz")
              /\ art.obj.ext = x
    /\ art # NoArt => EndsWith(art.obj.file, art.obj.ext)


\* the path q or command line argument q carries a degrees-of-freedom tag
DofTagged(q) == Contains(q, "_dof")
\* the native brain image the linear registration is given as its reference
NativeBrain == CHOOSE q \in last.ins : last.prod[q] = "xfm:mask_dwi:mrconvert:brain"

TckOut == last.cmd[3]

\* C33: the tractography file mr_tck_global names is <stem>.<n>.streamlines.tck
\* with n the configured number of streamlines written as a decimal integer,
\* for the default (100000) and for a given value alike; this file is the
\* output argument of tckgen, and it is the file tckgen writes.
C33_CountInName ==
    last.site = Generation =>
        /\ last.cmd[1] = "tckgen"
        /\ Contains(BaseName(TckOut), "." \o ToString(cfg.stream_lines.n) \o ".streamlines")
        /\ ~Contains(BaseName(TckOut), ToString(cfg.stream_lines.n) \o ".0")
        /\ EndsWith(TckOut, ".tck")
        /\ last.outs = {TckOut}
        /\ last.rc = 0 => TckOut \in DOMAIN files /\ files[TckOut].by = Generation

\* tckgen has written dwi.100000.streamlines.tck in a run without filtering
C33_Witness ==
    /\ last.site = Generation
    /\ last.rc = 0
    /\ cfg.stream_lines.n = 100000
    /\ ~cfg.filter_tracts
    /\ BaseName(TckOut) = "dwi.100000.streamlines.tck"

\* tckgen has written dwi.5000.streamlines.tck
C33_WitnessGiven ==
    /\ last.site = Generation
    /\ last.rc = 0
    /\ BaseName(TckOut) = "dwi.5000.streamlines.tck"


\* C34: a call of Command.run with dryrun set spawns no process and returns
\* (0, None, None), whatever log argument it is given.
C34_DryRunSpawnsNothing ==
    (result # NoResult /\ call.dryrun) =>
        /\ ~result.o.spawned
        /\ result.o.exc = NoExc
        /\ result.o.ret = <<0, None, None>>
        /\ result.o.wrote = {}


\* a TmpDir has just been constructed
Constructed == call.op = "TmpDir"

\* C35: constructing a TmpDir changes no directory and no file, and the root
\* it allocates is named tmp_dir_<number>; without use_cwd the root lies
\* directly under the given parent directory, with use_cwd it lies under the
\* current working directory, for a relative and for an absolute parent.
C35_AllocationUnderParent ==
    /\ [][call'.op = "TmpDir" => dirs' = dirs /\ files' = files]_vars
    /\ [](Constructed =>
            LET w == work[call.run]
            IN  /\ BaseName(w.src) = "tmp_dir_" \o ToString(call.r)
                /\ w.parent_dir = DirName(w.src)
                /\ ~call.use_cwd => DirName(w.src) = call.src
                /\ call.use_cwd => Under(w.src, cwd))


\* the names of the variables of the environment e
EnvNames(e) == {v[1] : v \in e}
\* Command.run returns or raises in this step
Returning == result = NoResult /\ result' # NoResult

\* C36: a call of Command.run leaves the environment of the host process as
\* it was before the call, whatever env the Command carries, and a process
\* spawned for a Command without env is given the environment the program
\* started with, with none of the variables of an earlier Command.
C36_EnvironmentScoped ==
    /\ [][Returning => environ' = environ]_vars
    /\ [](/\ environ = HostEnviron
          /\ (result # NoResult /\ result.o.spawned) =>
                /\ call.env \subseteq result.env
                /\ call.env = {} => result.env = HostEnviron)


\* the number of times the record rec stands in the sequence lines
Times(rec, lines) == Cardinality({i \in 1..Len(lines) : lines[i] = rec})
\* the records of the call that pass the logger's level
Logged == {i \in 1..Len(result.o.records) : result.o.records[i].level # "debug"}

\* C37: whatever LogFile objects have been constructed and whatever calls of
\* Command.run have been made before, every message a call of Command.run
\* logs is written to the log file of the call exactly once, and no message is
\* written to the file of another LogFile.
C37_LoggedOnce ==
    (result # NoResult /\ call.log.kind # "none") =>
        /\ \A i \in Logged :
              Times(result.o.records[i], result.lines[call.log.log_file]) = 1
        /\ \A n \in LogNames \ {call.log.log_file} : result.lines[n] = <<>>


\* the run whose operation this step is stays inside its with-block and the
\* operation is not a removal the block itself asks for
BlockStep ==
    /\ InBlock(call'.run)
    /\ call'.op \in {"mkdir", "copy"}

\* the run p is inside its with-block after the step
InBlockAfter(p) == \E i \in 1..Len(stack') : stack'[i].fn = "with" /\ stack'[i].a.run = p

\* C38: when a TmpDir is used as a context manager, its directory exists
\* when the block is entered, no mkdir or copy of the block removes it, and
\* it is gone with everything below it when the block is left, at its end
\* or by an exception; the exit changes nothing outside the directory, so the
\* parent directory stays, and the exception raised in the block is the one
\* that leaves the with statement.
C38_ScopedWorkspace ==
    [][/\ (call'.op = "enter" /\ exc' = NoExc) =>
             /\ InBlockAfter(call'.run)
             /\ Callee.src \in dirs'
             /\ files' = files
       /\ (BlockStep /\ Callee.src \in dirs) => Callee.src \in dirs'
       /\ call'.op = "exit" =>
             /\ ~InBlockAfter(call'.run)
             /\ GoneAfter(Callee.src)
             /\ KeptOutside(Callee.src)
             /\ Callee.parent_dir \in dirs => Callee.parent_dir \in dirs'
             /\ exc' = call'.raised]_vars

\* a block that staged a file has been left by an exception: the workspace is
\* gone, its parent is there and the exception is pending
C38_Witness ==
    /\ call.op = "exit"
    /\ call.existed
    /\ call.raised # NoExc
    /\ exc = call.raised
    /\ ~Exists(work[call.run].src)
    /\ work[call.run].parent_dir \in dirs
    /\ \E p \in Runs \ {call.run} : \E f \in DOMAIN files : Under(f, work[p].src)

\* a block has been left at its end
C38_WitnessNormal ==
    /\ call.op = "exit"
    /\ call.existed
    /\ call.raised = NoExc
    /\ exc = NoExc
    /\ ~Exists(work[call.run].src)


Response == "dwi:estimate_response:dwi2response"

\* C39: the argument list of the response-function estimation names the
\* configured number of erosion passes and the configured FA threshold
\* whenever they are not the defaults (0 and 0.2), so that runs that differ in
\* erode or in fa_thresh issue different dwi2response commands.
C39_ResponseReflectsOptions ==
    last.site = Response =>
        /\ cfg.erode # 0 => ToString(cfg.erode) \in Args(last.cmd)
        /\ cfg.fa_thresh # "0.2" => cfg.fa_thresh \in Args(last.cmd)


\* rm_ext has been called on a File or NiiFile object
Stripped == art # NoArt /\ art.stripped # None /\ art.kind \in {"File", "NiiFile"}

\* C40: rm_ext of a File or NiiFile returns the name of the file without its
\* extension: the result followed by the extension of the file object is the
\* name of the file, and for a file object without extension the result is
\* the name itself.
C40_ExtensionRemoved ==
    Stripped =>
        /\ art.stripped \o art.obj.ext = art.obj.file
        /\ art.obj.ext = "" => art.stripped = art.obj.file

====
